---- MODULE Spec2Model ----
(***************************************************************************)
(* Visual State Cache of mcp_desktop_visual (cache.py) together with the   *)
(* value types of models.py it is built on: BoundingBox, UIElement with    *)
(* its stable identifier, ChangedRegion, VisualDiff and ScreenState.       *)
(*                                                                         *)
(* Python's None is the string None; an insertion-ordered dict is a        *)
(* sequence of its values (elements, windows: the key is a field of the    *)
(* value) or a function whose domain is the set of keys present (the three *)
(* secondary indexes).  A datetime is the number of the update that set it.*)
(***************************************************************************)
EXTENDS Integers, Sequences, FiniteSets, TLC

None == "None"

\* ------------------------------------------------------------------ bounds

\* Largest max_elements a configuration of the model draws.
MaxCap == 3
\* Largest max_history a configuration of the model draws.
MaxHist == 1
\* Longest element list of a snapshot handed to update_full.
MaxSnap == 3
\* Largest number of entries over the three lists of one update_incremental.
MaxBatch == 2
\* Number of update calls after which Spec stops (updates_count).
MaxCalls == 2
\* Number of one-element updates after which SpecSteps stops.
MaxSteps == 5

\* ------------------------------------------------------- generic helpers

Range(s) == {s[i] : i \in 1..Len(s)}

Max2(a, b) == IF a >= b THEN a ELSE b

Min2(a, b) == IF a <= b THEN a ELSE b

Abs(a) == IF a < 0 THEN -a ELSE a

\* All sequences over S of length at most n.
SeqsUpTo(S, n) == UNION {[1..k -> S] : k \in 0..n}

\* The enumerations of a finite set: every order in which iterating a Python
\* set of str may yield its members (str hashing is salted per process).
Orders(S) == {s \in [1..Cardinality(S) -> S] : Range(s) = S}

\* list.remove(x): drops the first occurrence; ValueError (caught by every
\* caller in cache.py) leaves the list as it is.
RECURSIVE ListRemove(_, _)
ListRemove(s, x) ==
    IF s = <<>> THEN <<>>
    ELSE IF Head(s) = x THEN Tail(s)
    ELSE <<Head(s)>> \o ListRemove(Tail(s), x)

\* ------------------------------------------------------------ BoundingBox

BB(x, y, w, h) == [x |-> x, y |-> y, width |-> w, height |-> h]

X2(b) == b.x + b.width

Y2(b) == b.y + b.height

Area(b) == b.width * b.height

Contains(b, x, y) == b.x <= x /\ x <= X2(b) /\ b.y <= y /\ y <= Y2(b)

Intersects(a, b) ==
    ~(X2(a) < b.x \/ X2(b) < a.x \/ Y2(a) < b.y \/ Y2(b) < a.y)

\* A union that returns its first operand.
UnionFirst(a, b) == a

Union(a, b) ==
    LET x  == Min2(a.x, b.x)
        y  == Min2(a.y, b.y)
        x2 == Max2(X2(a), X2(b))
        y2 == Max2(Y2(a), Y2(b))
    IN  BB(x, y, x2 - x, y2 - y)

\* An intersection that returns its first operand when the two meet.
IntersectionOfFirst(a, b) == IF ~Intersects(a, b) THEN <<>> ELSE <<a>>

\* BoundingBox.intersection: <<>> for None, <<box>> otherwise.
Intersection(a, b) ==
    IF ~Intersects(a, b) THEN <<>>
    ELSE LET x  == Max2(a.x, b.x)
             y  == Max2(a.y, b.y)
             x2 == Min2(X2(a), X2(b))
             y2 == Min2(Y2(a), Y2(b))
         IN  <<BB(x, y, x2 - x, y2 - y)>>

\* -------------------------------------------------------------- UIElement

\* grid_size of _generate_stable_id.
GridSize == 20

\* hashlib.md5(content.encode()).hexdigest()[:8] for the content strings
\* f"{type.value}:{qx}_{qy}_{qw}_{qh}" the model can build; the content is
\* held as the tuple of its parts (the formatting is injective) and the
\* digests are MD5's own.  The six-part rows are the digests of
\* f"{type.value}:{qx}_{qy}_{qw}_{qh}:{text}", a content the code does not
\* build.
Md5Hex8(content) ==
    CASE content = <<"button", 0, 0, 2, 0>> -> "03bc0f31"
      [] content = <<"button", 0, 0, 2, 1>> -> "2f6368aa"
      [] content = <<"button", 0, 0, 3, 0>> -> "28c2269d"
      [] content = <<"button", 0, 0, 3, 1>> -> "f59c834f"
      [] content = <<"button", 0, 0, -3, 1>> -> "bfa07100"
      [] content = <<"button", 0, 0, 0, 0>> -> "45adc761"
      [] content = <<"button", 0, 3, 0, 0>> -> "f28d6c4d"
      [] content = <<"button", 0, 1, 2, 0>> -> "c0db5c77"
      [] content = <<"button", 0, 1, 2, 1>> -> "0735f6a9"
      [] content = <<"button", 0, 1, 3, 0>> -> "658a6fee"
      [] content = <<"button", 0, 1, 3, 1>> -> "6cef700f"
      [] content = <<"button", 0, 2, 2, 0>> -> "8accff71"
      [] content = <<"button", 0, 2, 2, 1>> -> "218d22cf"
      [] content = <<"button", 0, 2, 3, 0>> -> "9608b9dc"
      [] content = <<"button", 0, 2, 3, 1>> -> "bfb0cba4"
      [] content = <<"button", 0, 5, 2, 0>> -> "1a2b630e"
      [] content = <<"button", 0, 5, 2, 1>> -> "cc4efc75"
      [] content = <<"button", 0, 5, 3, 0>> -> "eb8184ae"
      [] content = <<"button", 0, 5, 3, 1>> -> "c6545a46"
      [] content = <<"button", 1, 0, 2, 0>> -> "8e64c5b7"
      [] content = <<"button", 1, 0, 2, 1>> -> "446115e3"
      [] content = <<"button", 1, 0, 3, 0>> -> "1cb855ba"
      [] content = <<"button", 1, 0, 3, 1>> -> "1fa2ad83"
      [] content = <<"button", 1, 1, 2, 0>> -> "22fda101"
      [] content = <<"button", 1, 1, 2, 1>> -> "662055dd"
      [] content = <<"button", 1, 1, 3, 0>> -> "38ecfcea"
      [] content = <<"button", 1, 1, 3, 1>> -> "77a3d765"
      [] content = <<"button", 1, 2, 2, 0>> -> "3ce6f2d0"
      [] content = <<"button", 1, 2, 2, 1>> -> "39b750fd"
      [] content = <<"button", 1, 2, 3, 0>> -> "621d4b87"
      [] content = <<"button", 1, 2, 3, 1>> -> "6c46125c"
      [] content = <<"button", 1, 5, 2, 0>> -> "5e60a17f"
      [] content = <<"button", 1, 5, 2, 1>> -> "ad48899a"
      [] content = <<"button", 1, 5, 3, 0>> -> "60b53517"
      [] content = <<"button", 1, 5, 3, 1>> -> "b5bfe632"
      [] content = <<"button", 2, 0, 2, 0>> -> "7cf5eccf"
      [] content = <<"button", 2, 0, 2, 1>> -> "0209e87d"
      [] content = <<"button", 2, 0, 3, 0>> -> "8c478dc3"
      [] content = <<"button", 2, 0, 3, 1>> -> "5018df86"
      [] content = <<"button", 2, 1, 2, 0>> -> "a64549e0"
      [] content = <<"button", 2, 1, 2, 1>> -> "6515789b"
      [] content = <<"button", 2, 1, 3, 0>> -> "1aff67c1"
      [] content = <<"button", 2, 1, 3, 1>> -> "86c43cab"
      [] content = <<"button", 2, 2, 2, 0>> -> "0044a407"
      [] content = <<"button", 2, 2, 2, 1>> -> "b88508bc"
      [] content = <<"button", 2, 2, 3, 0>> -> "9e6456bc"
      [] content = <<"button", 2, 2, 3, 1>> -> "1eb66b82"
      [] content = <<"button", 2, 5, 2, 0>> -> "c7f435af"
      [] content = <<"button", 2, 5, 2, 1>> -> "6deeaef6"
      [] content = <<"button", 2, 5, 3, 0>> -> "cc755281"
      [] content = <<"button", 2, 5, 3, 1>> -> "0dbe58b5"
      [] content = <<"button", 10, 0, 2, 0>> -> "f91a20f9"
      [] content = <<"button", 10, 0, 2, 1>> -> "0a107f07"
      [] content = <<"button", 10, 0, 3, 0>> -> "1851102f"
      [] content = <<"button", 10, 0, 3, 1>> -> "c6c965bc"
      [] content = <<"button", 10, 1, 2, 0>> -> "869e010e"
      [] content = <<"button", 10, 1, 2, 1>> -> "190631ca"
      [] content = <<"button", 10, 1, 3, 0>> -> "9e52dcd5"
      [] content = <<"button", 10, 1, 3, 1>> -> "e430e52c"
      [] content = <<"button", 10, 2, 2, 0>> -> "c0325787"
      [] content = <<"button", 10, 2, 2, 1>> -> "0f9bc075"
      [] content = <<"button", 10, 2, 3, 0>> -> "832f709b"
      [] content = <<"button", 10, 2, 3, 1>> -> "5b885bc4"
      [] content = <<"button", 10, 5, 2, 0>> -> "743474e5"
      [] content = <<"button", 10, 5, 2, 1>> -> "b55e5c6d"
      [] content = <<"button", 10, 5, 3, 0>> -> "5b6d854d"
      [] content = <<"button", 10, 5, 3, 1>> -> "98aa9b21"
      [] content = <<"text", 0, 0, 2, 0>> -> "01223282"
      [] content = <<"text", 0, 0, 2, 1>> -> "a63d29bd"
      [] content = <<"text", 0, 0, 3, 0>> -> "c3fc8d7b"
      [] content = <<"text", 0, 0, 3, 1>> -> "fa2ce1a6"
      [] content = <<"text", 0, 1, 2, 0>> -> "f567c8a9"
      [] content = <<"text", 0, 1, 2, 1>> -> "7bcf16af"
      [] content = <<"text", 0, 1, 3, 0>> -> "8035d1c2"
      [] content = <<"text", 0, 1, 3, 1>> -> "674a73cc"
      [] content = <<"text", 0, 2, 2, 0>> -> "1d455129"
      [] content = <<"text", 0, 2, 2, 1>> -> "35b99b19"
      [] content = <<"text", 0, 2, 3, 0>> -> "916af8a1"
      [] content = <<"text", 0, 2, 3, 1>> -> "346739ee"
      [] content = <<"text", 0, 5, 2, 0>> -> "7ef7dd9e"
      [] content = <<"text", 0, 5, 2, 1>> -> "b5083835"
      [] content = <<"text", 0, 5, 3, 0>> -> "ba6c9154"
      [] content = <<"text", 0, 5, 3, 1>> -> "09123d18"
      [] content = <<"text", 1, 0, 2, 0>> -> "718fde4c"
      [] content = <<"text", 1, 0, 2, 1>> -> "d0256157"
      [] content = <<"text", 1, 0, 3, 0>> -> "ae02235a"
      [] content = <<"text", 1, 0, 3, 1>> -> "1ec6e8b1"
      [] content = <<"text", 1, 1, 2, 0>> -> "86dbb70e"
      [] content = <<"text", 1, 1, 2, 1>> -> "d8877145"
      [] content = <<"text", 1, 1, 3, 0>> -> "10fdd267"
      [] content = <<"text", 1, 1, 3, 1>> -> "b5939a49"
      [] content = <<"text", 1, 2, 2, 0>> -> "ea8d760b"
      [] content = <<"text", 1, 2, 2, 1>> -> "984317b0"
      [] content = <<"text", 1, 2, 3, 0>> -> "be52e009"
      [] content = <<"text", 1, 2, 3, 1>> -> "6d0f080c"
      [] content = <<"text", 1, 5, 2, 0>> -> "fcd19801"
      [] content = <<"text", 1, 5, 2, 1>> -> "69948869"
      [] content = <<"text", 1, 5, 3, 0>> -> "072e3863"
      [] content = <<"text", 1, 5, 3, 1>> -> "7d076fb9"
      [] content = <<"text", 2, 0, 2, 0>> -> "7dd87c1d"
      [] content = <<"text", 2, 0, 2, 1>> -> "249f0946"
      [] content = <<"text", 2, 0, 3, 0>> -> "1258a78d"
      [] content = <<"text", 2, 0, 3, 1>> -> "cb801dc3"
      [] content = <<"text", 2, 1, 2, 0>> -> "aad36f44"
      [] content = <<"text", 2, 1, 2, 1>> -> "2c584cf1"
      [] content = <<"text", 2, 1, 3, 0>> -> "52c6491f"
      [] content = <<"text", 2, 1, 3, 1>> -> "6c758438"
      [] content = <<"text", 2, 2, 2, 0>> -> "6ebcea09"
      [] content = <<"text", 2, 2, 2, 1>> -> "e1456963"
      [] content = <<"text", 2, 2, 3, 0>> -> "07062603"
      [] content = <<"text", 2, 2, 3, 1>> -> "dfa3e30d"
      [] content = <<"text", 2, 5, 2, 0>> -> "50c066fc"
      [] content = <<"text", 2, 5, 2, 1>> -> "bb642659"
      [] content = <<"text", 2, 5, 3, 0>> -> "237a9d88"
      [] content = <<"text", 2, 5, 3, 1>> -> "5063e871"
      [] content = <<"text", 10, 0, 2, 0>> -> "2fe312cc"
      [] content = <<"text", 10, 0, 2, 1>> -> "3e71bc39"
      [] content = <<"text", 10, 0, 3, 0>> -> "1b6fa6b8"
      [] content = <<"text", 10, 0, 3, 1>> -> "381c36a8"
      [] content = <<"text", 10, 1, 2, 0>> -> "0fb3cfb2"
      [] content = <<"text", 10, 1, 2, 1>> -> "cdf988f8"
      [] content = <<"text", 10, 1, 3, 0>> -> "f5b32761"
      [] content = <<"text", 10, 1, 3, 1>> -> "6da544f1"
      [] content = <<"text", 10, 2, 2, 0>> -> "9b0051dc"
      [] content = <<"text", 10, 2, 2, 1>> -> "9140f306"
      [] content = <<"text", 10, 2, 3, 0>> -> "f3866de3"
      [] content = <<"text", 10, 2, 3, 1>> -> "ae37f63a"
      [] content = <<"text", 10, 5, 2, 0>> -> "9eabb2c5"
      [] content = <<"text", 10, 5, 2, 1>> -> "cfc7fc5f"
      [] content = <<"text", 10, 5, 3, 0>> -> "22efacaf"
      [] content = <<"text", 10, 5, 3, 1>> -> "fb87bb52"
      [] content = <<"input", 0, 0, 2, 0>> -> "b7e267f0"
      [] content = <<"input", 0, 0, 2, 1>> -> "5cd1975f"
      [] content = <<"input", 0, 0, 3, 0>> -> "a236874c"
      [] content = <<"input", 0, 0, 3, 1>> -> "3ee54198"
      [] content = <<"input", 0, 1, 2, 0>> -> "8897739c"
      [] content = <<"input", 0, 1, 2, 1>> -> "49177ecd"
      [] content = <<"input", 0, 1, 3, 0>> -> "dea277ca"
      [] content = <<"input", 0, 1, 3, 1>> -> "aa35f41a"
      [] content = <<"input", 0, 2, 2, 0>> -> "a8b0ef19"
      [] content = <<"input", 0, 2, 2, 1>> -> "b5ac0ea7"
      [] content = <<"input", 0, 2, 3, 0>> -> "c0374673"
      [] content = <<"input", 0, 2, 3, 1>> -> "519f92bf"
      [] content = <<"input", 0, 5, 2, 0>> -> "7fec9709"
      [] content = <<"input", 0, 5, 2, 1>> -> "e0cb1d0e"
      [] content = <<"input", 0, 5, 3, 0>> -> "9b6183a3"
      [] content = <<"input", 0, 5, 3, 1>> -> "d660b197"
      [] content = <<"input", 1, 0, 2, 0>> -> "21de1a36"
      [] content = <<"input", 1, 0, 2, 1>> -> "4c3b92f7"
      [] content = <<"input", 1, 0, 3, 0>> -> "715a96d8"
      [] content = <<"input", 1, 0, 3, 1>> -> "3e126b5a"
      [] content = <<"input", 1, 1, 2, 0>> -> "b48320fc"
      [] content = <<"input", 1, 1, 2, 1>> -> "dc7e64b4"
      [] content = <<"input", 1, 1, 3, 0>> -> "11631971"
      [] content = <<"input", 1, 1, 3, 1>> -> "721cd3d4"
      [] content = <<"input", 1, 2, 2, 0>> -> "76afddfa"
      [] content = <<"input", 1, 2, 2, 1>> -> "55033819"
      [] content = <<"input", 1, 2, 3, 0>> -> "b9a488b2"
      [] content = <<"input", 1, 2, 3, 1>> -> "d916e916"
      [] content = <<"input", 1, 5, 2, 0>> -> "30631ba5"
      [] content = <<"input", 1, 5, 2, 1>> -> "c1563f56"
      [] content = <<"input", 1, 5, 3, 0>> -> "62c41bb9"
      [] content = <<"input", 1, 5, 3, 1>> -> "3da1ca0b"
      [] content = <<"input", 2, 0, 2, 0>> -> "5e5359fa"
      [] content = <<"input", 2, 0, 2, 1>> -> "d85d6ebc"
      [] content = <<"input", 2, 0, 3, 0>> -> "6288fb75"
      [] content = <<"input", 2, 0, 3, 1>> -> "2b007eff"
      [] content = <<"input", 2, 1, 2, 0>> -> "cdbd1a55"
      [] content = <<"input", 2, 1, 2, 1>> -> "23369c05"
      [] content = <<"input", 2, 1, 3, 0>> -> "708fc2d4"
      [] content = <<"input", 2, 1, 3, 1>> -> "f3d9b1d4"
      [] content = <<"input", 2, 2, 2, 0>> -> "3263c8b6"
      [] content = <<"input", 2, 2, 2, 1>> -> "23b9fcbe"
      [] content = <<"input", 2, 2, 3, 0>> -> "aba7ec51"
      [] content = <<"input", 2, 2, 3, 1>> -> "6b743191"
      [] content = <<"input", 2, 5, 2, 0>> -> "577eaa6c"
      [] content = <<"input", 2, 5, 2, 1>> -> "82caa87e"
      [] content = <<"input", 2, 5, 3, 0>> -> "b9668e3e"
      [] content = <<"input", 2, 5, 3, 1>> -> "ad405075"
      [] content = <<"input", 10, 0, 2, 0>> -> "6009d42b"
      [] content = <<"input", 10, 0, 2, 1>> -> "b5d9e234"
      [] content = <<"input", 10, 0, 3, 0>> -> "454e4439"
      [] content = <<"input", 10, 0, 3, 1>> -> "c20b408c"
      [] content = <<"input", 10, 1, 2, 0>> -> "bbab5bbe"
      [] content = <<"input", 10, 1, 2, 1>> -> "d9c7d340"
      [] content = <<"input", 10, 1, 3, 0>> -> "93c7ad57"
      [] content = <<"input", 10, 1, 3, 1>> -> "dab6ef25"
      [] content = <<"input", 10, 2, 2, 0>> -> "235786c3"
      [] content = <<"input", 10, 2, 2, 1>> -> "3186e8fd"
      [] content = <<"input", 10, 2, 3, 0>> -> "e14fcb35"
      [] content = <<"input", 10, 2, 3, 1>> -> "83b93931"
      [] content = <<"input", 10, 5, 2, 0>> -> "f1e58645"
      [] content = <<"input", 10, 5, 2, 1>> -> "71039fac"
      [] content = <<"input", 10, 5, 3, 0>> -> "8d5e33ba"
      [] content = <<"input", 10, 5, 3, 1>> -> "13e2c5f2"
      [] content = <<"button", 0, 0, 2, 0, "None">> -> "1a7d52c4"
      [] content = <<"button", 0, 0, 2, 0, "OK">> -> "8ca5a365"
      [] content = <<"button", 0, 0, 2, 1, "None">> -> "6fe13e02"
      [] content = <<"button", 0, 0, 2, 1, "OK">> -> "a71d2654"
      [] content = <<"button", 0, 0, 3, 0, "None">> -> "9f56bbb0"
      [] content = <<"button", 0, 0, 3, 0, "OK">> -> "ddf906c1"
      [] content = <<"button", 0, 0, 3, 1, "None">> -> "9ed81fd0"
      [] content = <<"button", 0, 0, 3, 1, "OK">> -> "b59c22bf"
      [] content = <<"button", 0, 2, 2, 0, "None">> -> "f73534c0"
      [] content = <<"button", 0, 2, 2, 0, "OK">> -> "bb7eacf5"
      [] content = <<"button", 0, 2, 2, 1, "None">> -> "22a792ad"
      [] content = <<"button", 0, 2, 2, 1, "OK">> -> "8713552c"
      [] content = <<"button", 0, 2, 3, 0, "None">> -> "51559ef4"
      [] content = <<"button", 0, 2, 3, 0, "OK">> -> "614ae06b"
      [] content = <<"button", 0, 2, 3, 1, "None">> -> "9d7ccc8d"
      [] content = <<"button", 0, 2, 3, 1, "OK">> -> "3daec560"
      [] content = <<"button", 1, 0, 2, 0, "None">> -> "fac421e7"
      [] content = <<"button", 1, 0, 2, 0, "OK">> -> "ffe64909"
      [] content = <<"button", 1, 0, 2, 1, "None">> -> "55e83263"
      [] content = <<"button", 1, 0, 2, 1, "OK">> -> "772014c6"
      [] content = <<"button", 1, 0, 3, 0, "None">> -> "42d4590f"
      [] content = <<"button", 1, 0, 3, 0, "OK">> -> "4e499cf2"
      [] content = <<"button", 1, 0, 3, 1, "None">> -> "b8230911"
      [] content = <<"button", 1, 0, 3, 1, "OK">> -> "6e1573d4"
      [] content = <<"button", 1, 2, 2, 0, "None">> -> "30fc56d3"
      [] content = <<"button", 1, 2, 2, 0, "OK">> -> "42d34e72"
      [] content = <<"button", 1, 2, 2, 1, "None">> -> "baddda60"
      [] content = <<"button", 1, 2, 2, 1, "OK">> -> "707c00e4"
      [] content = <<"button", 1, 2, 3, 0, "None">> -> "1086048c"
      [] content = <<"button", 1, 2, 3, 0, "OK">> -> "06315a7e"
      [] content = <<"button", 1, 2, 3, 1, "None">> -> "d087332c"
      [] content = <<"button", 1, 2, 3, 1, "OK">> -> "13affc26"
      [] content = <<"text", 0, 0, 2, 0, "None">> -> "f0acf871"
      [] content = <<"text", 0, 0, 2, 0, "OK">> -> "15e552b8"
      [] content = <<"text", 0, 0, 2, 1, "None">> -> "c0d953b1"
      [] content = <<"text", 0, 0, 2, 1, "OK">> -> "cf57ba5d"
      [] content = <<"text", 0, 0, 3, 0, "None">> -> "1f1b35f8"
      [] content = <<"text", 0, 0, 3, 0, "OK">> -> "958ba3eb"
      [] content = <<"text", 0, 0, 3, 1, "None">> -> "bff617d4"
      [] content = <<"text", 0, 0, 3, 1, "OK">> -> "72fa4a83"
      [] content = <<"text", 0, 2, 2, 0, "None">> -> "b8b7743c"
      [] content = <<"text", 0, 2, 2, 0, "OK">> -> "2923ae28"
      [] content = <<"text", 0, 2, 2, 1, "None">> -> "c334fb11"
      [] content = <<"text", 0, 2, 2, 1, "OK">> -> "896d3cd0"
      [] content = <<"text", 0, 2, 3, 0, "None">> -> "00c6dbe1"
      [] content = <<"text", 0, 2, 3, 0, "OK">> -> "88dded10"
      [] content = <<"text", 0, 2, 3, 1, "None">> -> "17445df2"
      [] content = <<"text", 0, 2, 3, 1, "OK">> -> "ac8ca638"
      [] content = <<"text", 1, 0, 2, 0, "None">> -> "dfb84307"
      [] content = <<"text", 1, 0, 2, 0, "OK">> -> "a29c651a"
      [] content = <<"text", 1, 0, 2, 1, "None">> -> "ae24a5c1"
      [] content = <<"text", 1, 0, 2, 1, "OK">> -> "6476a443"
      [] content = <<"text", 1, 0, 3, 0, "None">> -> "9a675c17"
      [] content = <<"text", 1, 0, 3, 0, "OK">> -> "93c80761"
      [] content = <<"text", 1, 0, 3, 1, "None">> -> "32653eee"
      [] content = <<"text", 1, 0, 3, 1, "OK">> -> "69b3c4e6"
      [] content = <<"text", 1, 2, 2, 0, "None">> -> "68148e77"
      [] content = <<"text", 1, 2, 2, 0, "OK">> -> "eb211002"
      [] content = <<"text", 1, 2, 2, 1, "None">> -> "d5aef432"
      [] content = <<"text", 1, 2, 2, 1, "OK">> -> "653f9bdf"
      [] content = <<"text", 1, 2, 3, 0, "None">> -> "da188737"
      [] content = <<"text", 1, 2, 3, 0, "OK">> -> "443db921"
      [] content = <<"text", 1, 2, 3, 1, "None">> -> "c2fa2563"
      [] content = <<"text", 1, 2, 3, 1, "OK">> -> "9b72806a"

\* The content string hashed by _generate_stable_id: the kind and the four
\* floor-quotients of the bounds by the grid size.  label and text are
\* parameters of the method and take no part.
StableIdContent(type, bounds, label, text) ==
    <<type, bounds.x \div GridSize, bounds.y \div GridSize,
      bounds.width \div GridSize, bounds.height \div GridSize>>

\* A variant that hashes the text along with the kind and the grid cell.
GenerateStableIdWithText(type, bounds, label, text) ==
    "elem_" \o Md5Hex8(Append(StableIdContent(type, bounds, label, text), text))

GenerateStableId(type, bounds, label, text) ==
    "elem_" \o Md5Hex8(StableIdContent(type, bounds, label, text))

\* A detection as a provider hands it to UIElement.create: every field of
\* UIElement but the id.
Detection(type, bounds, label, text, en, vis, foc, win) ==
    [type |-> type, bounds |-> bounds, label |-> label, text |-> text,
     is_enabled |-> en, is_visible |-> vis, is_focused |-> foc,
     window_title |-> win]

\* UIElement.create(type, bounds, label, text, **kwargs).
Create(d) ==
    [id |-> GenerateStableId(d.type, d.bounds, d.label, d.text),
     type |-> d.type, bounds |-> d.bounds, label |-> d.label,
     text |-> d.text, is_enabled |-> d.is_enabled,
     is_visible |-> d.is_visible, is_focused |-> d.is_focused,
     window_title |-> d.window_title]

\* [UIElement.create(...) for each detection], in order.
CreateAll(ds) == [i \in 1..Len(ds) |-> Create(ds[i])]

\* str.lower() on the labels of the model.
Lower(s) ==
    CASE s = "OK" -> "ok"
      [] s = "Ok" -> "ok"
      [] s = "ok" -> "ok"
      [] s = "Go" -> "go"
      [] s = "go" -> "go"
      [] s = "G" -> "g"
      [] s = "Main" -> "main"
      [] s = "Other" -> "other"
      [] s = "MA" -> "ma"
      [] s = "Submit" -> "submit"
      [] s = "SUBMIT" -> "submit"
      [] s = "Sbumit" -> "sbumit"
      [] s = "Sbuzzzmit" -> "sbuzzzmit"
      [] OTHER -> s

\* Python truthiness of an Optional[str]: neither None nor "".
Truthy(s) == s # None /\ s # ""


\* ------------------------------------------------- dict and index helpers

\* id in self._elements
DictHas(elems, id) == \E i \in 1..Len(elems) : elems[i].id = id

\* self._elements[id]
DictGet(elems, id) == elems[CHOOSE i \in 1..Len(elems) : elems[i].id = id]

\* self._elements[e.id] = e: a key already present keeps its place in the
\* iteration order and takes the new value; a new key goes last.
DictSet(elems, e) ==
    IF DictHas(elems, e.id)
    THEN [i \in 1..Len(elems) |-> IF elems[i].id = e.id THEN e ELSE elems[i]]
    ELSE Append(elems, e)

\* del self._elements[id]
DictDel(elems, id) == SelectSeq(elems, LAMBDA e : e.id # id)

\* The keys of self._elements, in iteration order.
Ids(elems) == [i \in 1..Len(elems) |-> elems[i].id]

IdSet(elems) == {elems[i].id : i \in 1..Len(elems)}

\* if key not in index: index[key] = []; index[key].append(id)
IndexAppend(index, key, id) ==
    [k \in DOMAIN index \cup {key} |->
        IF k = key
        THEN (IF key \in DOMAIN index THEN index[key] ELSE <<>>) \o <<id>>
        ELSE index[k]]

\* The removal that empties the whole list of the key.
IndexRemoveKey(index, key, id) ==
    IF key \in DOMAIN index
    THEN [index EXCEPT ![key] = <<>>]
    ELSE index

\* if key in index: try index[key].remove(id) except ValueError: pass
IndexRemove(index, key, id) ==
    IF key \in DOMAIN index
    THEN [index EXCEPT ![key] = ListRemove(@, id)]
    ELSE index

\* An empty dict.
EmptyIndex == [k \in {} |-> <<>>]

\* ---------------------------------------------- _remove_element, _add_element

\* The element map and the three indexes, as _add_element and
\* _remove_element read and write them, with max_elements of the
\* configuration and the log of what the current call did to the map:
\* "evict" (the capacity branch chose this id), "delete" (the id left the
\* map), "insert" (the id was assigned; fresh tells a new key from an
\* overwritten one).
Core(elems, byLabel, byType, byWindow, maxElements, log) ==
    [elements |-> elems, by_label |-> byLabel, by_type |-> byType,
     by_window |-> byWindow, max_elements |-> maxElements, log |-> log]

Event(op, id, fresh) == [op |-> op, id |-> id, fresh |-> fresh]

\* An exception left the method that was working on core c: the last event
\* of its log is the raise.
Raised(c) == c.log # <<>> /\ c.log[Len(c.log)].op = "raise"

RemoveElement(c, element_id) ==
    IF ~DictHas(c.elements, element_id) THEN c
    ELSE
      LET element == DictGet(c.elements, element_id)
          byLabel == IF Truthy(element.label)
                     THEN IndexRemove(c.by_label, Lower(element.label), element_id)
                     ELSE c.by_label
          byType == IndexRemove(c.by_type, element.type, element_id)
          byWindow == IF Truthy(element.window_title)
                      THEN IndexRemove(c.by_window, element.window_title, element_id)
                      ELSE c.by_window
      IN  Core(DictDel(c.elements, element_id), byLabel, byType, byWindow,
               c.max_elements, Append(c.log, Event("delete", element_id, FALSE)))

\* The capacity branch with the test len(self._elements) > max_elements.
EnforceMaxOffByOne(c) ==
    IF Len(c.elements) > c.max_elements
    THEN LET oldest_id == Head(c.elements).id
         IN  RemoveElement(
                 [c EXCEPT !.log = Append(@, Event("evict", oldest_id, FALSE))],
                 oldest_id)
    ELSE c

\* The capacity branch of _add_element: with len(self._elements) at or over
\* max_elements, the first key in iteration order is removed; on an empty
\* map next(iter(self._elements)) raises StopIteration.
EnforceMax(c) ==
    IF Len(c.elements) >= c.max_elements
    THEN IF c.elements = <<>>
         THEN [c EXCEPT !.log = Append(@, Event("raise", "StopIteration", FALSE))]
         ELSE LET oldest_id == Head(c.elements).id
              IN  RemoveElement(
                      [c EXCEPT !.log = Append(@, Event("evict", oldest_id, FALSE))],
                      oldest_id)
    ELSE c

\* _add_element; an exception raised earlier in the call, or by the
\* capacity branch, leaves the rest undone.
AddElement(c, element) ==
  IF Raised(c) \/ Raised(EnforceMax(c))
  THEN IF Raised(c) THEN c ELSE EnforceMax(c)
  ELSE
    LET c1 == EnforceMax(c)
        byLabel == IF Truthy(element.label)
                   THEN IndexAppend(c1.by_label, Lower(element.label), element.id)
                   ELSE c1.by_label
        byType == IndexAppend(c1.by_type, element.type, element.id)
        byWindow == IF Truthy(element.window_title)
                    THEN IndexAppend(c1.by_window, element.window_title, element.id)
                    ELSE c1.by_window
    IN  Core(DictSet(c1.elements, element), byLabel, byType, byWindow,
             c1.max_elements,
             Append(c1.log, Event("insert", element.id,
                                  ~DictHas(c1.elements, element.id))))

\* for element in elems[:-1]: self._add_element(element)
RECURSIVE AddAllButLast(_, _)
AddAllButLast(c, elems) ==
    IF Len(elems) <= 1 THEN c
    ELSE AddAllButLast(AddElement(c, Head(elems)), Tail(elems))

\* for element in elems: self._add_element(element)
RECURSIVE AddAll(_, _)
AddAll(c, elems) ==
    IF elems = <<>> THEN c ELSE AddAll(AddElement(c, Head(elems)), Tail(elems))

\* ------------------------------------------------- ChangedRegion, merging

ChangedRegion(bounds, change_type, added, removed, modified) ==
    [bounds |-> bounds, change_type |-> change_type, added_elements |-> added,
     removed_elements |-> removed, modified_elements |-> modified]

AddedRegion(elem) == ChangedRegion(elem.bounds, "added", <<elem>>, <<>>, <<>>)

RemovedRegion(elem) == ChangedRegion(elem.bounds, "removed", <<>>, <<elem>>, <<>>)

\* A modified region that covers the element's new bounds only.
ModifiedRegionNewOnly(elem, old_elem) ==
    ChangedRegion(elem.bounds, "modified", <<>>, <<>>, <<elem>>)

ModifiedRegion(elem, old_elem) ==
    ChangedRegion(Union(elem.bounds, old_elem.bounds), "modified",
                  <<>>, <<>>, <<elem>>)

\* The sort key (r.bounds.y, r.bounds.x), compared as Python compares tuples.
KeyLess(r, s) ==
    \/ r.bounds.y < s.bounds.y
    \/ r.bounds.y = s.bounds.y /\ r.bounds.x < s.bounds.x

\* list.sort is stable: a region goes after every region whose key is not
\* greater than its own.
RECURSIVE SortInsert(_, _)
SortInsert(sorted, r) ==
    IF sorted = <<>> THEN <<r>>
    ELSE IF KeyLess(r, sorted[Len(sorted)])
         THEN SortInsert(SubSeq(sorted, 1, Len(sorted) - 1), r)
                  \o <<sorted[Len(sorted)]>>
         ELSE Append(sorted, r)

RECURSIVE SortRegions(_)
SortRegions(regions) ==
    IF regions = <<>> THEN <<>>
    ELSE SortInsert(SortRegions(SubSeq(regions, 1, Len(regions) - 1)),
                    regions[Len(regions)])

\* The body of the merge loop when the two bounds intersect.
MergeTwo(current, region) ==
    ChangedRegion(Union(current.bounds, region.bounds), "modified",
                  current.added_elements \o region.added_elements,
                  current.removed_elements \o region.removed_elements,
                  current.modified_elements \o region.modified_elements)

\* The loop of _merge_changed_regions over regions[1:].
RECURSIVE Sweep(_, _)
Sweep(current, rest) ==
    IF rest = <<>> THEN <<current>>
    ELSE IF Intersects(current.bounds, Head(rest).bounds)
         THEN Sweep(MergeTwo(current, Head(rest)), Tail(rest))
         ELSE <<current>> \o Sweep(Head(rest), Tail(rest))

MergeChangedRegions(regions) ==
    IF Len(regions) <= 1 THEN regions
    ELSE LET sorted == SortRegions(regions)
         IN  Sweep(Head(sorted), Tail(sorted))

\* ------------------------------------------------ VisualDiff, _compute_diff

VisualDiff(timestamp, regions, added, removed, modified) ==
    [timestamp |-> timestamp, changed_regions |-> regions,
     total_added |-> added, total_removed |-> removed,
     total_modified |-> modified]

\* position_tolerance of CacheConfig.
PositionTolerance == 5

\* The comparison with >= tolerance in place of > tolerance.
ElementChangedInclusive(old, new) ==
    LET tolerance == PositionTolerance
    IN  \/ Abs(old.bounds.x - new.bounds.x) >= tolerance
        \/ Abs(old.bounds.y - new.bounds.y) >= tolerance
        \/ Abs(old.bounds.width - new.bounds.width) >= tolerance
        \/ Abs(old.bounds.height - new.bounds.height) >= tolerance
        \/ old.label # new.label
        \/ old.text # new.text
        \/ old.is_enabled # new.is_enabled
        \/ old.is_visible # new.is_visible
        \/ old.is_focused # new.is_focused

ElementChanged(old, new) ==
    LET tolerance == PositionTolerance
    IN  \/ Abs(old.bounds.x - new.bounds.x) > tolerance
        \/ Abs(old.bounds.y - new.bounds.y) > tolerance
        \/ Abs(old.bounds.width - new.bounds.width) > tolerance
        \/ Abs(old.bounds.height - new.bounds.height) > tolerance
        \/ old.label # new.label
        \/ old.text # new.text
        \/ old.is_enabled # new.is_enabled
        \/ old.is_visible # new.is_visible
        \/ old.is_focused # new.is_focused

\* {e.id: e for e in new_state.elements}[id]: the last element of the list
\* that carries the id.
NewElement(new_list, id) ==
    new_list[CHOOSE i \in 1..Len(new_list) :
                 /\ new_list[i].id = id
                 /\ \A j \in (i + 1)..Len(new_list) : new_list[j].id # id]

\* added_ids without the set difference: every new id.
AddedIdsAll(elems, new_list) == IdSet(new_list)

\* removed_ids without the set difference: every old id.
RemovedIdsAll(elems, new_list) == IdSet(elems)

\* The three identifier sets of _compute_diff.
AddedIds(elems, new_list) == IdSet(new_list) \ IdSet(elems)

RemovedIds(elems, new_list) == IdSet(elems) \ IdSet(new_list)

CommonIds(elems, new_list) == IdSet(elems) \cap IdSet(new_list)

\* _compute_diff.  The three identifier sets are Python sets; ordA, ordR and
\* ordC are the orders in which their iteration yields them.
ComputeDiff(elems, new_list, timestamp, ordA, ordR, ordC) ==
    LET added == [i \in 1..Len(ordA) |-> NewElement(new_list, ordA[i])]
        removed == [i \in 1..Len(ordR) |-> DictGet(elems, ordR[i])]
        changedIds ==
            SelectSeq(ordC, LAMBDA id :
                ElementChanged(DictGet(elems, id), NewElement(new_list, id)))
        modified ==
            [i \in 1..Len(changedIds) |-> NewElement(new_list, changedIds[i])]
        regions ==
            [i \in 1..Len(added) |-> AddedRegion(added[i])]
            \o [i \in 1..Len(removed) |-> RemovedRegion(removed[i])]
            \o [i \in 1..Len(modified) |->
                    ModifiedRegion(modified[i], DictGet(elems, modified[i].id))]
    IN  VisualDiff(timestamp, MergeChangedRegions(regions),
                   Len(added), Len(removed), Len(modified))

\* ------------------------------------------------------------------ state

VARIABLES
    config,             \* CacheConfig: max_elements, max_history
    elements,           \* self._elements (values in iteration order)
    windows,            \* self._windows (values in iteration order)
    active_window,      \* self._active_window
    screen_size,        \* self._screen_size
    last_update,        \* self._last_update (0: None)
    elements_by_label,  \* self._elements_by_label
    elements_by_type,   \* self._elements_by_type
    elements_by_window, \* self._elements_by_window
    history,            \* self._history
    updates_count,      \* self._updates_count
    pending,            \* detection passes the driver has still to feed
    pre,                \* the cache as the last call found it
    call,               \* the last call and its arguments
    ret,                \* the VisualDiff the last call returned
    log,                \* what the last call did to the element map
    inserted,           \* cached ids, least recently inserted first
    cache_hits,         \* self._cache_hits
    cache_misses,       \* self._cache_misses
    lookup,             \* the last query, its arguments and its result
    held,               \* ScreenStates a caller got from current_state
    capture_config,     \* ScreenCapture.config (CaptureConfig)
    sct,                \* ScreenCapture._sct (FALSE: None)
    previous_frame,     \* ScreenCapture._previous_frame
    previous_frame_gray, \* ScreenCapture._previous_frame_gray
    previous_time,      \* ScreenCapture._previous_time (0: None)
    monitor_info,       \* ScreenCapture._monitor_info
    clock,              \* time.time() as read by the last capture
    inflight,           \* where the caller of update_full stands in its body
    engine              \* DesktopVisualEngine: its counters and its last cycle

cacheVars ==
    <<elements, windows, active_window, screen_size, last_update,
      elements_by_label, elements_by_type, elements_by_window, history,
      updates_count>>

\* The counters of the query methods and what their callers hold.
queryVars == <<cache_hits, cache_misses, lookup, held>>

\* The fields of ScreenCapture.
captureVars ==
    <<capture_config, sct, previous_frame, previous_frame_gray, previous_time,
      monitor_info, clock>>

vars ==
    <<config, cacheVars, pending, pre, call, ret, log, inserted, queryVars,
      captureVars, inflight, engine>>

\* ScreenState(timestamp, elements, windows, active_window, screen_size)
ScreenState(timestamp, elems, wins, active, size) ==
    [timestamp |-> timestamp, elements |-> elems, windows |-> wins,
     active_window |-> active, screen_size |-> size]

\* The datetime.now() of a call: later than every earlier call's.
Now == updates_count + 1

\* The snapshot that leaves the windows out.
CurrentStateNoWindows ==
    ScreenState(IF last_update # 0 THEN last_update ELSE Now,
                elements, <<>>, active_window, screen_size)

\* The current_state property.
CurrentState ==
    ScreenState(IF last_update # 0 THEN last_update ELSE Now,
                elements, windows, active_window, screen_size)

\* The append that never drops an entry.
DequeAppendUnbounded(h, s, maxlen) == Append(h, s)

\* The append to a deque whose entries all are the one live state object.
DequeAppendAliased(h, s, maxlen) ==
    IF maxlen = 0 THEN h
    ELSE [i \in 1..Min2(Len(h) + 1, maxlen) |-> s]

\* deque(maxlen=n).append(s): a full deque drops its oldest entry; a deque of
\* maxlen 0 stays empty.
DequeAppend(h, s, maxlen) ==
    IF maxlen = 0 THEN h
    ELSE IF Len(h) >= maxlen THEN Append(Tail(h), s)
    ELSE Append(h, s)

\* {w.handle: w for w in wins}, as the values in iteration order.
RECURSIVE WindowsDict(_)
WindowsDict(wins) ==
    IF wins = <<>> THEN <<>>
    ELSE LET w == wins[Len(wins)]
             before == WindowsDict(SubSeq(wins, 1, Len(wins) - 1))
         IN  IF \E i \in 1..Len(before) : before[i].handle = w.handle
             THEN [i \in 1..Len(before) |->
                      IF before[i].handle = w.handle THEN w ELSE before[i]]
             ELSE Append(before, w)

\* The cache as a call finds it (the ghost copy kept in pre).
Snapshot ==
    [elements |-> elements, windows |-> windows,
     active_window |-> active_window, screen_size |-> screen_size,
     by_label |-> elements_by_label, by_type |-> elements_by_type,
     by_window |-> elements_by_window, history |-> history,
     inserted |-> inserted]

\* The order of last insertion after a call: an "insert" makes its id the
\* most recently inserted one, a "delete" drops the id.
RECURSIVE ReplayInserted(_, _)
ReplayInserted(ins, events) ==
    IF events = <<>> THEN ins
    ELSE LET ev == Head(events)
             without == SelectSeq(ins, LAMBDA id : id # ev.id)
         IN  ReplayInserted(
                 IF ev.op = "insert" THEN Append(without, ev.id)
                 ELSE IF ev.op = "delete" THEN without
                 ELSE ins,
                 Tail(events))

NoCall == [name |-> "none", state |-> ScreenState(0, <<>>, <<>>, None, <<0, 0>>),
           added |-> <<>>, removed |-> <<>>, modified |-> <<>>]

NoDiff == VisualDiff(0, <<>>, 0, 0, 0)

\* No query has been made.
NoLookup == [name |-> "none"]

\* DesktopVisualEngine.__init__: the state fields, and no cycle made yet
\* (cycle holds the argument, the CaptureResult and the analysed elements of
\* the last capture_and_analyze).
NewEngine ==
    [is_running |-> FALSE, last_capture_time |-> 0, capture_count |-> 0,
     cycle |-> <<>>]

\* No update_full is under way.
Idle ==
    [stage |-> "idle", state |-> NoCall.state, rest |-> <<>>, diff |-> NoDiff]

\* VisualStateCache.__init__ under configuration cfg.
InitCache(cfg) ==
    /\ inflight = Idle
    /\ config = cfg
    /\ elements = <<>>
    /\ windows = <<>>
    /\ active_window = None
    /\ screen_size = <<1920, 1080>>
    /\ last_update = 0
    /\ elements_by_label = EmptyIndex
    /\ elements_by_type = EmptyIndex
    /\ elements_by_window = EmptyIndex
    /\ history = <<>>
    /\ updates_count = 0
    /\ call = NoCall
    /\ ret = NoDiff
    /\ log = <<>>
    /\ inserted = <<>>
    /\ pre = Snapshot
    /\ cache_hits = 0
    /\ cache_misses = 0
    /\ lookup = NoLookup
    /\ held = <<>>

\* CaptureConfig(diff_threshold, min_region_area, max_regions, diff_scale);
\* diff_scale is held as the fraction scale_num / scale_den.
CaptureConfig(diff_threshold, min_region_area, max_regions, scale_num, scale_den) ==
    [diff_threshold |-> diff_threshold, min_region_area |-> min_region_area,
     max_regions |-> max_regions,
     diff_scale |-> [num |-> scale_num, den |-> scale_den]]

\* The defaults of CaptureConfig.
DefaultCaptureConfig == CaptureConfig(30, 100, 50, 1, 2)

\* ScreenCapture.__init__ under configuration cfg; an Optional field holds
\* <<>> for None and <<v>> for a value v.
InitScreenCapture(cfg) ==
    /\ capture_config = cfg
    /\ sct = FALSE
    /\ previous_frame = <<>>
    /\ previous_frame_gray = <<>>
    /\ previous_time = 0
    /\ monitor_info = <<>>
    /\ clock = 0

\* ScreenCapture() with the default configuration.
InitCapture == InitScreenCapture(DefaultCaptureConfig)

\* What a caller gets in place of a return value when the call on core c
\* ended in an exception: the exception.
Raise(c) == [raised |-> c.log[Len(c.log)].id]

\* The element map and indexes written back by a call that ended in core c.
StoreCore(c) ==
    /\ elements' = c.elements
    /\ elements_by_label' = c.by_label
    /\ elements_by_type' = c.by_type
    /\ elements_by_window' = c.by_window
    /\ log' = c.log
    /\ inserted' = ReplayInserted(inserted, c.log)

\* ------------------------------------------------------------ update_full

\* update_full(state), with the iteration orders of the three id sets of
\* _compute_diff.
UpdateFullOrdered(state, ordA, ordR, ordC) ==
    LET diff == ComputeDiff(elements, state.elements, state.timestamp,
                            ordA, ordR, ordC)
        \* self._elements.clear() and the three index clears
        cleared == Core(<<>>, EmptyIndex, EmptyIndex, EmptyIndex,
                        config.max_elements,
                        [i \in 1..Len(elements) |->
                            Event("delete", elements[i].id, FALSE)])
        c == AddAll(cleared, state.elements)
    IN  /\ history' = IF elements # <<>>
                      THEN DequeAppend(history, CurrentState, config.max_history)
                      ELSE history
        /\ StoreCore(c)
        /\ pre' = Snapshot
        /\ call' = [NoCall EXCEPT !.name = "update_full", !.state = state]
        /\ IF Raised(c)
           THEN /\ ret' = Raise(c)
                /\ UNCHANGED <<windows, active_window, screen_size,
                               last_update, updates_count>>
           ELSE /\ windows' = WindowsDict(state.windows)
                /\ active_window' = state.active_window
                /\ screen_size' = state.screen_size
                /\ last_update' = state.timestamp
                /\ updates_count' = updates_count + 1
                /\ ret' = diff
        /\ UNCHANGED <<config, queryVars>>

UpdateFull(state) ==
    \E ordA \in Orders(AddedIds(elements, state.elements)),
       ordR \in Orders(RemovedIds(elements, state.elements)),
       ordC \in Orders(CommonIds(elements, state.elements)) :
        UpdateFullOrdered(state, ordA, ordR, ordC)

\* ----------------------------------------------------- update_incremental

\* The three loops of update_incremental carry the core and the list of
\* changed regions built so far.
Acc(c, regions) == [c |-> c, regions |-> regions]

\* The removal loop without the membership test: an id that is not cached
\* still yields a region, an empty one at the origin.
RECURSIVE ProcessRemovalsReporting(_, _)
ProcessRemovalsReporting(acc, removed) ==
    IF removed = <<>> THEN acc
    ELSE LET elem_id == Head(removed)
         IN  ProcessRemovalsReporting(
                 IF DictHas(acc.c.elements, elem_id)
                 THEN Acc(RemoveElement(acc.c, elem_id),
                          Append(acc.regions,
                                 RemovedRegion(DictGet(acc.c.elements, elem_id))))
                 ELSE Acc(acc.c,
                          Append(acc.regions,
                                 ChangedRegion(BB(0, 0, 0, 0), "removed",
                                               <<>>, <<>>, <<>>))),
                 Tail(removed))

RECURSIVE ProcessRemovals(_, _)
ProcessRemovals(acc, removed) ==
    IF removed = <<>> THEN acc
    ELSE LET elem_id == Head(removed)
         IN  ProcessRemovals(
                 IF DictHas(acc.c.elements, elem_id)
                 THEN Acc(RemoveElement(acc.c, elem_id),
                          Append(acc.regions,
                                 RemovedRegion(DictGet(acc.c.elements, elem_id))))
                 ELSE acc,
                 Tail(removed))

RECURSIVE ProcessAdditions(_, _)
ProcessAdditions(acc, added) ==
    IF added = <<>> THEN acc
    ELSE LET elem == Head(added)
         IN  ProcessAdditions(
                 Acc(AddElement(acc.c, elem),
                     Append(acc.regions, AddedRegion(elem))),
                 Tail(added))

\* The modification loop whose fallback reports the inserted element as a
\* modified one.
RECURSIVE ProcessModificationsReporting(_, _)
ProcessModificationsReporting(acc, modified) ==
    IF modified = <<>> THEN acc
    ELSE LET elem == Head(modified)
         IN  ProcessModificationsReporting(
                 IF DictHas(acc.c.elements, elem.id)
                 THEN LET old_elem == DictGet(acc.c.elements, elem.id)
                      IN  Acc(AddElement(RemoveElement(acc.c, elem.id), elem),
                              Append(acc.regions, ModifiedRegion(elem, old_elem)))
                 ELSE Acc(AddElement(acc.c, elem),
                          Append(acc.regions, ModifiedRegion(elem, elem))),
                 Tail(modified))

RECURSIVE ProcessModifications(_, _)
ProcessModifications(acc, modified) ==
    IF modified = <<>> THEN acc
    ELSE LET elem == Head(modified)
         IN  ProcessModifications(
                 IF DictHas(acc.c.elements, elem.id)
                 THEN LET old_elem == DictGet(acc.c.elements, elem.id)
                      IN  Acc(AddElement(RemoveElement(acc.c, elem.id), elem),
                              Append(acc.regions, ModifiedRegion(elem, old_elem)))
                 ELSE Acc(AddElement(acc.c, elem),
                          Append(acc.regions, AddedRegion(elem))),
                 Tail(modified))

UpdateIncremental(added, removed, modified) ==
    LET start == Acc(Core(elements, elements_by_label, elements_by_type,
                          elements_by_window, config.max_elements, <<>>),
                     <<>>)
        done == ProcessModifications(
                    ProcessAdditions(ProcessRemovals(start, removed), added),
                    modified)
    IN  /\ history' = IF elements # <<>>
                      THEN DequeAppend(history, CurrentState, config.max_history)
                      ELSE history
        /\ StoreCore(done.c)
        /\ pre' = Snapshot
        /\ call' = [NoCall EXCEPT !.name = "update_incremental",
                                  !.added = added, !.removed = removed,
                                  !.modified = modified]
        /\ IF Raised(done.c)
           THEN /\ ret' = Raise(done.c)
                /\ UNCHANGED <<last_update, updates_count>>
           ELSE /\ last_update' = Now
                /\ updates_count' = updates_count + 1
                /\ ret' = VisualDiff(Now, MergeChangedRegions(done.regions),
                                     Len(added), Len(removed), Len(modified))
        /\ UNCHANGED <<config, windows, active_window, screen_size, queryVars>>

\* ----------------------------------------------------------------- inputs

\* The detections the callers of Spec hand over.  The first two fall in one
\* grid cell (one identifier) and differ in label and window; the text
\* overlaps them; the second button has no label and lies apart.
Universe ==
    {Detection("button", BB(10, 10, 50, 20), "OK", None, TRUE, TRUE, FALSE, "Main"),
     Detection("button", BB(10, 10, 50, 20), "Go", None, TRUE, TRUE, FALSE, None),
     Detection("text", BB(40, 25, 50, 20), "Go", "Go", TRUE, TRUE, FALSE, "Main"),
     Detection("button", BB(200, 10, 50, 20), None, None, TRUE, TRUE, FALSE, "Other")}

UniverseElements == {Create(d) : d \in Universe}

\* The ids a caller of Spec may ask to remove: those of the universe and one
\* that no element carries.
RemovableIds == {e.id : e \in UniverseElements} \cup {"elem_00000000"}

\* The elements SpecSteps feeds one at a time: those of Spec and an input
\* field, a fourth identifier.
StepElements ==
    UniverseElements
    \cup {Create(Detection("input", BB(10, 100, 60, 20), "OK", None,
                           TRUE, TRUE, TRUE, None))}

StepIds == {e.id : e \in StepElements} \cup {"elem_00000000"}

\* WindowInfo, cut to the fields the cache reads.
WindowInfo(handle, title, is_active) ==
    [handle |-> handle, title |-> title, is_active |-> is_active]

\* The window lists, active window and screen size a snapshot carries.
ScreenInfos ==
    {[windows |-> <<WindowInfo(1, "Main", TRUE), WindowInfo(2, "Other", FALSE)>>,
      active_window |-> "Main", screen_size |-> <<1920, 1080>>],
     [windows |-> <<WindowInfo(2, "Other", TRUE)>>,
      active_window |-> "Other", screen_size |-> <<1280, 720>>]}

\* The lengths of the three lists of one update_incremental.
BatchShapes ==
    {s \in (0..MaxBatch) \X (0..MaxBatch) \X (0..MaxBatch) :
        s[1] + s[2] + s[3] <= MaxBatch}

\* The configurations: max_elements from 1, max_history from 0.
Configs ==
    {[max_elements |-> m, max_history |-> h] : m \in {MaxCap - 1, MaxCap}, h \in {MaxHist}}

\* ---------------------------------------------------------------- actions

\* A caller builds a ScreenState from a detection pass and hands it to
\* update_full (DesktopVisualEngine.capture_and_analyze).
DoUpdateFull ==
    /\ call.name = "none"
    /\ updates_count < MaxCalls
    /\ \E ds \in SeqsUpTo(Universe, MaxSnap), si \in ScreenInfos :
           UpdateFull(ScreenState(Now, CreateAll(ds), si.windows,
                                  si.active_window, si.screen_size))
    /\ UNCHANGED <<pending, engine, inflight, captureVars>>

DoUpdateIncremental ==
    /\ call.name = "none"
    /\ updates_count < MaxCalls
    /\ \E s \in BatchShapes :
         \E added \in [1..s[1] -> UniverseElements],
            removed \in [1..s[2] -> RemovableIds],
            modified \in [1..s[3] -> UniverseElements] :
              UpdateIncremental(added, removed, modified)
    /\ UNCHANGED <<pending, engine, inflight, captureVars>>

\* The caller has read the returned diff: the record of the call is dropped
\* and the cache stands as the next call will find it.
Return ==
    /\ call.name # "none"
    /\ call' = NoCall
    /\ ret' = NoDiff
    /\ log' = <<>>
    /\ pre' = Snapshot
    /\ UNCHANGED <<config, cacheVars, pending, engine, inflight, captureVars, inserted, queryVars>>

Init == \E cfg \in Configs : InitCache(cfg) /\ InitCapture /\ pending = <<>> /\ engine = NewEngine

Next == DoUpdateFull \/ DoUpdateIncremental \/ Return

Spec == Init /\ [][Next]_vars

\* ------------------------------------------- one element at a time, deeper

\* update_incremental(added=[elem], removed=[], modified=[])
StepAdd ==
    /\ call.name = "none"
    /\ updates_count < MaxSteps
    /\ \E elem \in StepElements : UpdateIncremental(<<elem>>, <<>>, <<>>)
    /\ UNCHANGED <<pending, engine, inflight, captureVars>>

\* update_incremental(added=[], removed=[elem_id], modified=[])
StepRemove ==
    /\ call.name = "none"
    /\ updates_count < MaxSteps
    /\ \E elem_id \in StepIds : UpdateIncremental(<<>>, <<elem_id>>, <<>>)
    /\ UNCHANGED <<pending, engine, inflight, captureVars>>

\* update_incremental(added=[], removed=[], modified=[elem])
StepModify ==
    /\ call.name = "none"
    /\ updates_count < MaxSteps
    /\ \E elem \in StepElements : UpdateIncremental(<<>>, <<>>, <<elem>>)
    /\ UNCHANGED <<pending, engine, inflight, captureVars>>

NextSteps == StepAdd \/ StepRemove \/ StepModify \/ Return

SpecSteps == Init /\ [][NextSteps]_vars

\* ------------------------------------------ two detection passes of a screen

\* The places of a control in two passes: both sides of a grid line in every
\* coordinate, and the moves of 5 and 6 pixels around position_tolerance.
PassRects ==
    {BB(x, y, w, h) : x \in {10, 20}, y \in {10, 15, 16, 40},
                      w \in {50, 60}, h \in {19, 20}}

PassKinds == {"button", "text"}

\* Two passes that differ in kind, place, label and text.
PlacePasses ==
    {<< <<Detection(k1, r1, "OK", None, TRUE, TRUE, FALSE, None)>>,
        <<Detection(k2, r2, l2, t2, TRUE, TRUE, FALSE, None)>> >> :
        k1 \in PassKinds, r1 \in PassRects, k2 \in PassKinds, r2 \in PassRects,
        l2 \in {"OK", "Go"}, t2 \in {None, "OK"}}

\* One coordinate of (10, 10, 50, 20) moved by at most 6 pixels.
NudgedRects ==
    {BB(10 + d, 10, 50, 20) : d \in {-6, -5, 0, 5, 6}}
    \cup {BB(10, 10 + d, 50, 20) : d \in {-6, -5, 0, 5, 6}}
    \cup {BB(10, 10, 50 + d, 20) : d \in {-6, -5, 0, 5, 6}}
    \cup {BB(10, 10, 50, 20 + d) : d \in {-6, -5, 0, 5, 6}}

\* Two passes over the OK button that differ by a nudge, the label, the text
\* and the three flags.
AttributePasses ==
    {<< <<Detection("button", BB(10, 10, 50, 20), "OK", None, TRUE, TRUE, FALSE, None)>>,
        <<Detection("button", r, l, t, en, vis, foc, None)>> >> :
        r \in NudgedRects, l \in {"OK", "ok", None}, t \in {None, "OK"},
        en \in BOOLEAN, vis \in BOOLEAN, foc \in BOOLEAN}

\* The next pending pass is detected and handed to update_full.
FeedPass ==
    /\ pending # <<>>
    /\ UpdateFull(ScreenState(Now, CreateAll(Head(pending)), <<>>, None,
                              <<1920, 1080>>))
    /\ pending' = Tail(pending)
    /\ UNCHANGED <<captureVars, inflight, engine>>

InitPasses ==
    /\ InitCache([max_elements |-> MaxCap, max_history |-> MaxHist])
    /\ InitCapture
    /\ pending \in PlacePasses \cup AttributePasses
    /\ engine = NewEngine

NextPasses == FeedPass

SpecPasses == InitPasses /\ [][NextPasses]_vars

\* ---------------------------------------------------------------- strings

\* The characters of the lower-cased labels, titles and queries in use.
Chars(s) ==
    CASE s = "" -> <<>>
      [] s = "ok" -> <<"o", "k">>
      [] s = "go" -> <<"g", "o">>
      [] s = "g" -> <<"g">>
      [] s = "o" -> <<"o">>
      [] s = "zz" -> <<"z", "z">>
      [] s = "ma" -> <<"m", "a">>
      [] s = "main" -> <<"m", "a", "i", "n">>
      [] s = "other" -> <<"o", "t", "h", "e", "r">>
      [] s = "mein" -> <<"m", "e", "i", "n">>
      [] s = "othxx" -> <<"o", "t", "h", "x", "x">>
      [] s = "submit" -> <<"s", "u", "b", "m", "i", "t">>
      [] s = "sbumit" -> <<"s", "b", "u", "m", "i", "t">>
      [] s = "sbuzzzmit" -> <<"s", "b", "u", "z", "z", "z", "m", "i", "t">>

\* needle in hay, on strings.
IsSubstring(needle, hay) ==
    LET n == Chars(needle)
        h == Chars(hay)
    IN  \E i \in 0..Len(h) :
            /\ i + Len(n) <= Len(h)
            /\ SubSeq(h, i + 1, i + Len(n)) = n

\* The length of a longest common subsequence of two character lists.
RECURSIVE LcsLen(_, _)
LcsLen(a, b) ==
    IF a = <<>> \/ b = <<>> THEN 0
    ELSE IF Head(a) = Head(b) THEN 1 + LcsLen(Tail(a), Tail(b))
    ELSE Max2(LcsLen(Tail(a), b), LcsLen(a, Tail(b)))

\* A similarity score as the fraction num / den.
Score(num, den) == [num |-> num, den |-> den]

\* The similarity taken over the shorter string alone: 100 * lcs over the
\* smaller of the two lengths.
FuzzRatioOverShorter(s1, s2) ==
    LET a == Chars(s1)
        b == Chars(s2)
    IN  IF Len(a) + Len(b) = 0 THEN Score(100, 1)
        ELSE Score(100 * LcsLen(a, b), Max2(1, Min2(Len(a), Len(b))))

\* fuzz.ratio(s1, s2): the normalized Indel similarity, 100 * 2 * lcs over
\* the sum of the lengths, and 100 for two empty strings.
FuzzRatio(s1, s2) ==
    LET a == Chars(s1)
        b == Chars(s2)
    IN  IF Len(a) + Len(b) = 0 THEN Score(100, 1)
        ELSE Score(200 * LcsLen(a, b), Len(a) + Len(b))

\* score > best_score
ScoreGreater(score, best_score) ==
    score.num * best_score.den > best_score.num * score.den

\* score >= threshold, an integer
ScoreAtLeast(score, threshold) == score.num >= threshold * score.den

\* ---------------------------------------------------------- query methods

\* What a query method returns and which counter it bumps; an Optional
\* result is a list of no or one element.
Answer(found, hit, miss) == [found |-> found, hit |-> hit, miss |-> miss]

\* self._elements.get(element_id)
DictGetOpt(elems, element_id) ==
    IF DictHas(elems, element_id) THEN <<DictGet(elems, element_id)>> ELSE <<>>

\* get_element_by_id(element_id)
GetElementById(elems, element_id) ==
    LET elem == DictGetOpt(elems, element_id)
    IN  Answer(elem, elem # <<>>, elem = <<>>)

\* The fuzzy loop of get_element_by_label over the elements in dict order:
\* the best match so far and its score.
RECURSIVE FuzzyBest(_, _, _, _, _)
FuzzyBest(elems, label_lower, threshold, best_match, best_score) ==
    IF elems = <<>> THEN best_match
    ELSE LET elem == Head(elems)
             score == FuzzRatio(label_lower, Lower(elem.label))
         IN  IF /\ Truthy(elem.label)
                /\ ScoreGreater(score, best_score)
                /\ ScoreAtLeast(score, threshold)
             THEN FuzzyBest(Tail(elems), label_lower, threshold, <<elem>>, score)
             ELSE FuzzyBest(Tail(elems), label_lower, threshold,
                            best_match, best_score)

\* get_element_by_label(label, fuzzy, threshold)
GetElementByLabel(elems, byLabel, label, fuzzy, threshold) ==
    LET label_lower == Lower(label)
        best_match == FuzzyBest(elems, label_lower, threshold, <<>>, Score(0, 1))
    IN  IF label_lower \in DOMAIN byLabel /\ byLabel[label_lower] # <<>>
        THEN Answer(DictGetOpt(elems, byLabel[label_lower][1]), TRUE, FALSE)
        ELSE IF fuzzy /\ best_match # <<>>
        THEN Answer(best_match, TRUE, FALSE)
        ELSE Answer(<<>>, FALSE, TRUE)

\* min(matching, key=area): the first element of least area.
MinByArea(matching) ==
    LET i == CHOOSE k \in 1..Len(matching) :
                 \A j \in 1..Len(matching) :
                     /\ Area(matching[k].bounds) <= Area(matching[j].bounds)
                     /\ Area(matching[j].bounds) = Area(matching[k].bounds)
                            => k <= j
    IN  matching[i]

\* The lookup that returns the first element containing the point.
GetElementAtFirst(elems, x, y) ==
    LET matching == SelectSeq(elems, LAMBDA elem : Contains(elem.bounds, x, y))
    IN  IF matching = <<>> THEN Answer(<<>>, FALSE, TRUE)
        ELSE Answer(<<matching[1]>>, TRUE, FALSE)

\* get_element_at(x, y)
GetElementAt(elems, x, y) ==
    LET matching == SelectSeq(elems, LAMBDA elem : Contains(elem.bounds, x, y))
    IN  IF matching = <<>> THEN Answer(<<>>, FALSE, TRUE)
        ELSE Answer(<<MinByArea(matching)>>, TRUE, FALSE)

\* The default limit of query_elements.
DefaultLimit == 50

\* The default threshold of get_element_by_label.
DefaultThreshold == 80

\* index.get(key, [])
IndexGet(index, key) == IF key \in DOMAIN index THEN index[key] ELSE <<>>

\* [self._elements[id] for id in elem_ids if id in self._elements]
RECURSIVE Lookups(_, _)
Lookups(elems, elem_ids) ==
    IF elem_ids = <<>> THEN <<>>
    ELSE DictGetOpt(elems, Head(elem_ids)) \o Lookups(elems, Tail(elem_ids))

\* The three filters of query_elements on one candidate; label and
\* window_title are None when not given, bounds is a list of no or one box.
PassesFilters(elem, label, window_title, bounds) ==
    /\ label # None =>
          /\ Truthy(elem.label)
          /\ IsSubstring(Lower(label), Lower(elem.label))
    /\ window_title # None =>
          /\ Truthy(elem.window_title)
          /\ IsSubstring(Lower(window_title), Lower(elem.window_title))
    /\ bounds # <<>> => Intersects(bounds[1], elem.bounds)

\* The loop of query_elements: it stops once results holds limit elements.
RECURSIVE QueryLoop(_, _, _, _, _, _)
QueryLoop(candidates, results, label, window_title, bounds, limit) ==
    IF candidates = <<>> \/ Len(results) >= limit THEN results
    ELSE QueryLoop(Tail(candidates),
                   IF PassesFilters(Head(candidates), label, window_title, bounds)
                   THEN Append(results, Head(candidates))
                   ELSE results,
                   label, window_title, bounds, limit)

\* query_elements(label, element_type, window_title, bounds, limit)
QueryElements(elems, byType, label, element_type, window_title, bounds, limit) ==
    LET candidates == IF element_type # None
                      THEN Lookups(elems, IndexGet(byType, element_type))
                      ELSE elems
    IN  QueryLoop(candidates, <<>>, label, window_title, bounds, limit)

\* update_windows(wins): the window dict is replaced and the first active
\* window, if any, becomes the active one.
RECURSIVE FirstActiveTitle(_, _)
FirstActiveTitle(wins, otherwise) ==
    IF wins = <<>> THEN otherwise
    ELSE IF Head(wins).is_active THEN Head(wins).title
    ELSE FirstActiveTitle(Tail(wins), otherwise)

UpdateWindows(wins) ==
    /\ windows' = WindowsDict(wins)
    /\ active_window' = FirstActiveTitle(wins, active_window)
    /\ pre' = Snapshot
    /\ call' = [NoCall EXCEPT !.name = "update_windows",
                             !.state.windows = wins]
    /\ ret' = NoDiff
    /\ log' = <<>>
    /\ UNCHANGED <<config, elements, screen_size, last_update,
                   elements_by_label, elements_by_type, elements_by_window,
                   history, updates_count, inserted, queryVars>>

\* ------------------------------------------------- updates, then one query

\* How many queries a behaviour of SpecQueries makes.
MaxQueries == 1

\* The arguments of the queries.
QueryIds == RemovableIds
QueryLabels == {"OK", "go", "G", "zz"}
QueryThresholds == {0, 50, DefaultThreshold}
QueryPoints == {<<10, 10>>, <<45, 27>>, <<60, 30>>, <<61, 30>>, <<220, 15>>}
QueryLabelParts == {None, "o"}
QueryKinds == {None, "button", "text"}
QueryTitleParts == {None, "ma"}
QueryBounds == {<<>>, <<BB(0, 0, 39, 24)>>}
QueryLimits == {1, 2, DefaultLimit}

\* A caller fills the empty cache with a full update ...
FillFull ==
    /\ call.name = "none"
    /\ lookup.name = "none"
    /\ updates_count = 0
    /\ \E ds \in SeqsUpTo(Universe, MaxSnap) :
           UpdateFull(ScreenState(Now, CreateAll(ds), <<>>, None, <<1920, 1080>>))
    /\ UNCHANGED <<pending, engine, inflight, captureVars>>

\* The elements added one call later: those of the universe that overlap
\* and a smaller text inside the button.
FillElements ==
    {e \in UniverseElements : e.bounds.x < 200}
    \cup {Create(Detection("text", BB(10, 10, 40, 15), None, None,
                           TRUE, TRUE, FALSE, None))}

\* ... or adds elements to it.
FillIncremental ==
    /\ call.name = "none"
    /\ lookup.name = "none"
    /\ updates_count < MaxCalls
    /\ \E n \in 1..MaxBatch :
         \E added \in [1..n -> FillElements] :
              UpdateIncremental(added, <<>>, <<>>)
    /\ UNCHANGED <<pending, engine, inflight, captureVars>>

\* A query method was called with the arguments in q and gave answer a.
Queried(q, a) ==
    /\ call.name = "none"
    /\ lookup.name = "none"
    /\ cache_hits + cache_misses < MaxQueries
    /\ lookup' = [q EXCEPT !.found = a.found]
    /\ cache_hits' = cache_hits + (IF a.hit THEN 1 ELSE 0)
    /\ cache_misses' = cache_misses + (IF a.miss THEN 1 ELSE 0)
    /\ UNCHANGED <<config, cacheVars, pending, engine, inflight, captureVars, pre, call, ret, log, inserted, held>>

\* The record of a query: the arguments a method does not take stay None.
Query(name) ==
    [name |-> name, element_id |-> None, label |-> None, fuzzy |-> FALSE,
     threshold |-> 0, x |-> 0, y |-> 0, element_type |-> None,
     window_title |-> None, bounds |-> <<>>, limit |-> 0, found |-> <<>>]

DoGetElementById ==
    \E element_id \in QueryIds :
        Queried([Query("get_element_by_id") EXCEPT !.element_id = element_id],
                GetElementById(elements, element_id))

DoGetElementByLabel ==
    \E label \in QueryLabels, fuzzy \in BOOLEAN, threshold \in QueryThresholds :
        Queried([Query("get_element_by_label") EXCEPT
                    !.label = label, !.fuzzy = fuzzy, !.threshold = threshold],
                GetElementByLabel(elements, elements_by_label, label, fuzzy,
                                  threshold))

DoGetElementAt ==
    \E p \in QueryPoints :
        Queried([Query("get_element_at") EXCEPT !.x = p[1], !.y = p[2]],
                GetElementAt(elements, p[1], p[2]))

\* query_elements touches neither counter.
DoQueryElements ==
    \E label \in QueryLabelParts, element_type \in QueryKinds,
       window_title \in QueryTitleParts, bounds \in QueryBounds,
       limit \in QueryLimits :
        Queried([Query("query_elements") EXCEPT
                    !.label = label, !.element_type = element_type,
                    !.window_title = window_title, !.bounds = bounds,
                    !.limit = limit],
                Answer(QueryElements(elements, elements_by_type, label,
                                     element_type, window_title, bounds, limit),
                       FALSE, FALSE))

NextQueries ==
    \/ FillFull
    \/ FillIncremental
    \/ Return
    \/ DoGetElementById
    \/ DoGetElementByLabel
    \/ DoGetElementAt
    \/ DoQueryElements

SpecQueries == Init /\ [][NextQueries]_vars

\* -------------------------------------------------------- the history ring

\* The larger max_history of SpecRing, the number of its update calls and the
\* number of snapshots its caller holds.
MaxRing == 2
MaxRingCalls == 4
MaxHeld == 1

\* The elements of SpecRing: the OK button and the text.
RingElements == {e \in UniverseElements : e.label = "OK" \/ e.type = "text"}

\* update_full with a snapshot of no or one element.
RingUpdateFull ==
    /\ call.name = "none"
    /\ updates_count < MaxRingCalls
    /\ \E si \in ScreenInfos :
         \/ UpdateFull(ScreenState(Now, <<>>, si.windows,
                                   si.active_window, si.screen_size))
         \/ \E elem \in RingElements :
               UpdateFull(ScreenState(Now, <<elem>>, si.windows,
                                      si.active_window, si.screen_size))
    /\ UNCHANGED <<pending, engine, inflight, captureVars>>

RingUpdateIncremental ==
    /\ call.name = "none"
    /\ updates_count < MaxRingCalls
    /\ \/ \E elem \in RingElements : UpdateIncremental(<<elem>>, <<>>, <<>>)
       \/ \E elem \in RingElements : UpdateIncremental(<<>>, <<elem.id>>, <<>>)
    /\ UNCHANGED <<pending, engine, inflight, captureVars>>

\* update_windows with a list that differs from the cached one, once a
\* caller holds a snapshot.
DoUpdateWindows ==
    /\ call.name = "none"
    /\ held # <<>>
    /\ \E si \in ScreenInfos :
           /\ WindowsDict(si.windows) # windows
           /\ UpdateWindows(si.windows)
    /\ UNCHANGED <<pending, engine, inflight, captureVars>>

\* A caller reads current_state and keeps the ScreenState.
ReadCurrentState ==
    /\ call.name = "none"
    /\ elements # <<>>
    /\ Len(held) < MaxHeld
    /\ held' = Append(held, CurrentState)
    /\ UNCHANGED <<config, cacheVars, pending, engine, inflight, captureVars, pre, call, ret, log, inserted,
                   cache_hits, cache_misses, lookup>>

InitRing ==
    /\ \E h \in {0, MaxHist, MaxRing} :
           InitCache([max_elements |-> MaxCap, max_history |-> h])
    /\ InitCapture
    /\ pending = <<>>
    /\ engine = NewEngine

NextRing ==
    \/ RingUpdateFull
    \/ RingUpdateIncremental
    \/ DoUpdateWindows
    \/ ReadCurrentState
    \/ Return

SpecRing == InitRing /\ [][NextRing]_vars

\* ===================================================================
\* _merge_changed_regions as a function of its argument (cache.py:343-372)
\* ===================================================================

\* Longest region list handed to the merge.
MaxRegions == 3

\* Elements whose rectangles overlap in a chain, and one far from the others.
MergeElements ==
    {Create(Detection("button", BB(10, 10, 40, 20), "OK", None, TRUE, TRUE, FALSE, None)),
     Create(Detection("button", BB(55, 15, 50, 20), None, None, TRUE, TRUE, FALSE, None)),
     Create(Detection("text", BB(30, 25, 50, 20), "Go", "Go", TRUE, TRUE, FALSE, None)),
     Create(Detection("button", BB(200, 10, 50, 20), None, None, TRUE, TRUE, FALSE, None))}

\* The one-element regions _compute_diff builds before merging.
MergeRegions ==
    {AddedRegion(e) : e \in MergeElements}
        \cup {RemovedRegion(e) : e \in MergeElements}

\* Lists of regions of different elements, in any order.
MergeInputs ==
    {rs \in SeqsUpTo(MergeRegions, MaxRegions) :
        \A i, j \in 1..Len(rs) : i # j => rs[i].bounds # rs[j].bounds}

\* The record of a call of the merge: its argument, and whether the argument
\* was itself returned by a merge.
MergeCall(regions, merged_before) ==
    [name |-> "_merge_changed_regions", regions |-> regions,
     merged_before |-> merged_before]

\* self._merge_changed_regions(regions) on a list built by the caller.
DoMergeChangedRegions ==
    /\ call.name = "none"
    /\ \E regions \in MergeInputs :
           /\ call' = MergeCall(regions, FALSE)
           /\ ret' = MergeChangedRegions(regions)
    /\ UNCHANGED <<config, cacheVars, pending, engine, inflight, pre, log, inserted, queryVars,
                   captureVars>>

\* self._merge_changed_regions(merged) on the list the last call returned.
DoRemerge ==
    /\ call.name = "_merge_changed_regions"
    /\ ~call.merged_before
    /\ call' = MergeCall(ret, TRUE)
    /\ ret' = MergeChangedRegions(ret)
    /\ UNCHANGED <<config, cacheVars, pending, engine, inflight, pre, log, inserted, queryVars,
                   captureVars>>

InitMerge ==
    /\ InitCache([max_elements |-> MaxCap, max_history |-> MaxHist])
    /\ InitCapture
    /\ pending = <<>>
    /\ engine = NewEngine

NextMerge == DoMergeChangedRegions \/ DoRemerge

SpecMerge == InitMerge /\ [][NextMerge]_vars

\* ===================================================================
\* Window methods (cache.py:509-554)
\* ===================================================================

\* The fuzzy loop of get_window_by_title over the windows in dict order: the
\* best match so far and its score.
RECURSIVE FuzzyBestWindow(_, _, _, _)
FuzzyBestWindow(wins, title_lower, best_match, best_score) ==
    IF wins = <<>> THEN best_match
    ELSE LET window == Head(wins)
             score == FuzzRatio(title_lower, Lower(window.title))
         IN  IF ScoreGreater(score, best_score) /\ ScoreAtLeast(score, 60)
             THEN FuzzyBestWindow(Tail(wins), title_lower, <<window>>, score)
             ELSE FuzzyBestWindow(Tail(wins), title_lower, best_match,
                                  best_score)

\* The windows whose lower-cased title contains title_lower, in dict order.
SubstringMatches(wins, title_lower) ==
    SelectSeq(wins, LAMBDA window : IsSubstring(title_lower, Lower(window.title)))

\* A lookup that goes straight to the fuzzy loop.
GetWindowByTitleFuzzyOnly(wins, title, fuzzy) ==
    IF fuzzy THEN FuzzyBestWindow(wins, Lower(title), <<>>, Score(0, 1))
    ELSE <<>>

\* get_window_by_title(title, fuzzy): a list of no or one window.
GetWindowByTitle(wins, title, fuzzy) ==
    LET title_lower == Lower(title)
        matches == SubstringMatches(wins, title_lower)
    IN  IF matches # <<>> THEN <<Head(matches)>>
        ELSE IF fuzzy
             THEN FuzzyBestWindow(wins, title_lower, <<>>, Score(0, 1))
             ELSE <<>>

\* get_active_window(): the first cached window flagged active.
GetActiveWindow(wins) ==
    LET active == SelectSeq(wins, LAMBDA window : window.is_active)
    IN  IF active # <<>> THEN <<Head(active)>> ELSE <<>>

\* Longest window list handed to update_windows.
MaxWins == 2

\* The windows a platform enumeration reports.
WindowUniverse ==
    {WindowInfo(h, t, a) : h \in {1, 2}, t \in {"Main", "Other", "ma"},
                           a \in BOOLEAN}

\* The titles asked for: parts of titles in either case, near misses with
\* ratios of 75 and 60 to a title, and strings close to none.
WindowQueries == {"MA", "ma", "Main", "mein", "othxx", "zz", ""}

\* update_windows(ws) with any reported list, before the lookup.
SetWindows ==
    /\ call.name = "none"
    /\ lookup.name = "none"
    /\ \E ws \in SeqsUpTo(WindowUniverse, MaxWins) : UpdateWindows(ws)
    /\ UNCHANGED <<pending, engine, inflight, captureVars>>

\* get_window_by_title(title, fuzzy) and get_active_window() on the cached
\* windows; neither touches the counters.
DoGetWindowByTitle ==
    /\ call.name = "none"
    /\ lookup.name = "none"
    /\ \E title \in WindowQueries, fuzzy \in BOOLEAN :
           lookup' = [name |-> "get_window_by_title", title |-> title,
                      fuzzy |-> fuzzy,
                      found |-> GetWindowByTitle(windows, title, fuzzy),
                      active |-> GetActiveWindow(windows)]
    /\ UNCHANGED <<config, cacheVars, pending, engine, inflight, pre, call, ret, log, inserted,
                   cache_hits, cache_misses, held, captureVars>>

InitWindows ==
    /\ InitCache([max_elements |-> MaxCap, max_history |-> MaxHist])
    /\ InitCapture
    /\ pending = <<>>
    /\ engine = NewEngine

NextWindows == SetWindows \/ DoGetWindowByTitle \/ Return

SpecWindows == InitWindows /\ [][NextWindows]_vars

\* ===================================================================
\* BoundingBox.intersects / intersection / union on pairs of boxes
\* (models.py:92-120)
\* ===================================================================

\* Largest coordinate and largest side of the boxes.
MaxCoord == 2

\* Boxes with sides from 0, so that some pairs lie apart, some touch along an
\* edge or at a corner, some overlap and some nest.
Boxes ==
    {BB(x, y, w, h) : x \in 0..MaxCoord, y \in 0..MaxCoord,
                      w \in 0..MaxCoord, h \in 0..MaxCoord}

\* The record of the three methods called on a pair of boxes, each way round.
BoxCall(a, b) == [name |-> "BoundingBox", a |-> a, b |-> b]

BoxResults(a, b) ==
    [union |-> Union(a, b), union_swapped |-> Union(b, a),
     intersects |-> Intersects(a, b),
     intersection |-> Intersection(a, b),
     intersection_swapped |-> Intersection(b, a)]

\* a.union(b), a.intersects(b) and a.intersection(b) for a pair of boxes.
DoBoxMethods ==
    /\ call.name = "none"
    /\ \E a \in Boxes, b \in Boxes :
           /\ call' = BoxCall(a, b)
           /\ ret' = BoxResults(a, b)
    /\ UNCHANGED <<config, cacheVars, pending, engine, inflight, pre, log, inserted, queryVars,
                   captureVars>>

InitBoxes ==
    /\ InitCache([max_elements |-> MaxCap, max_history |-> MaxHist])
    /\ InitCapture
    /\ pending = <<>>
    /\ engine = NewEngine

NextBoxes == DoBoxMethods

SpecBoxes == InitBoxes /\ [][NextBoxes]_vars

\* ===================================================================
\* The change detector (capture.py:228-349)
\* ===================================================================

\* DirtyRegion(bounds, diff_score); the score is the fraction mean / 255.
DirtyRegion(bounds, diff_score) == [bounds |-> bounds, diff_score |-> diff_score]

\* A contour of the thresholded difference: its bounding rectangle in the
\* coordinates of the compared images, and the mean of the difference in it.
Contour(rect, mean) == [rect |-> rect, mean |-> mean]

\* int(v * scale_factor), with scale_factor = 1.0 / config.diff_scale.
ScaleBack(v, diff_scale) ==
    IF diff_scale.num < diff_scale.den
    THEN (v * diff_scale.den) \div diff_scale.num
    ELSE v

\* The loop over the contours: scale back, drop the small ones, score.
RECURSIVE Candidates(_, _)
Candidates(contours, cfg) ==
    IF contours = <<>> THEN <<>>
    ELSE LET c == Head(contours)
             x == ScaleBack(c.rect.x, cfg.diff_scale)
             y == ScaleBack(c.rect.y, cfg.diff_scale)
             w == ScaleBack(c.rect.width, cfg.diff_scale)
             h == ScaleBack(c.rect.height, cfg.diff_scale)
             area == w * h
         IN  IF area < cfg.min_region_area
             THEN Candidates(Tail(contours), cfg)
             ELSE <<DirtyRegion(BB(x, y, w, h), Score(c.mean, 255))>>
                      \o Candidates(Tail(contours), cfg)

\* merge_distance of _merge_regions.
MergeDistance == 20

\* The bounds grown by merge_distance on all sides.
Expanded(current, merge_distance) ==
    BB(current.x - merge_distance, current.y - merge_distance,
       current.width + 2 * merge_distance, current.height + 2 * merge_distance)

\* max(current_score, region2.diff_score)
MaxScore(s, t) == IF ScoreGreater(t, s) THEN t ELSE s

\* The inner loop of _merge_regions from index j on: the bounds and score
\* accumulated for region i, and the indices used.
RECURSIVE Absorb(_, _, _, _, _, _)
Absorb(regions, j, current, current_score, used, merge_distance) ==
    IF j > Len(regions)
    THEN [bounds |-> current, diff_score |-> current_score, used |-> used]
    ELSE IF j \in used \/ ~Intersects(Expanded(current, merge_distance),
                                      regions[j].bounds)
         THEN Absorb(regions, j + 1, current, current_score, used,
                     merge_distance)
         ELSE Absorb(regions, j + 1, Union(current, regions[j].bounds),
                     MaxScore(current_score, regions[j].diff_score),
                     used \cup {j}, merge_distance)

\* The outer loop of _merge_regions from index i on.
RECURSIVE MergeLoop(_, _, _, _)
MergeLoop(regions, i, used, merge_distance) ==
    IF i > Len(regions) THEN <<>>
    ELSE IF i \in used THEN MergeLoop(regions, i + 1, used, merge_distance)
    ELSE LET a == Absorb(regions, i + 1, regions[i].bounds,
                         regions[i].diff_score, used, merge_distance)
         IN  <<DirtyRegion(a.bounds, a.diff_score)>>
                 \o MergeLoop(regions, i + 1, a.used, merge_distance)

\* _merge_regions(regions, merge_distance)
MergeDirtyRegions(regions, merge_distance) ==
    IF Len(regions) <= 1 THEN regions
    ELSE MergeLoop(regions, 1, {}, merge_distance)

\* list.sort(key=area, reverse=True) places r after the regions at least as
\* large: equal areas keep their order.
RECURSIVE InsertByArea(_, _)
InsertByArea(sorted, r) ==
    IF sorted = <<>> THEN <<r>>
    ELSE IF Area(Head(sorted).bounds) >= Area(r.bounds)
         THEN <<Head(sorted)>> \o InsertByArea(Tail(sorted), r)
         ELSE <<r>> \o sorted

\* A sort by area in which, of two regions of equal area, the later comes
\* first.
RECURSIVE SortByAreaUnstable(_)
SortByAreaUnstable(regions) ==
    IF regions = <<>> THEN <<>>
    ELSE LET rest == SortByAreaUnstable(Tail(regions))
             larger == SelectSeq(rest, LAMBDA s :
                           Area(s.bounds) >= Area(Head(regions).bounds))
             smaller == SelectSeq(rest, LAMBDA s :
                           Area(s.bounds) < Area(Head(regions).bounds))
         IN  larger \o <<Head(regions)>> \o smaller

\* dirty_regions.sort(key=lambda r: r.bounds.area, reverse=True)
RECURSIVE SortByArea(_)
SortByArea(regions) ==
    IF regions = <<>> THEN <<>>
    ELSE InsertByArea(SortByArea(SubSeq(regions, 1, Len(regions) - 1)),
                      regions[Len(regions)])

\* The limit of _detect_changes on the merged list.
LimitRegions(merged, max_regions) ==
    IF Len(merged) > max_regions
    THEN SubSeq(SortByArea(merged), 1, max_regions)
    ELSE merged

\* _detect_changes from the contours on: what the loop kept, the merged
\* list and the list returned.
DetectChanges(contours, cfg) ==
    LET candidates == Candidates(contours, cfg)
        merged == MergeDirtyRegions(candidates, MergeDistance)
    IN  [candidates |-> candidates, merged |-> merged,
         regions |-> LimitRegions(merged, cfg.max_regions)]

\* Longest contour list of SpecDetect.
MaxContours == 3

\* Bounding rectangles of contours: a square, a square 30 below it, a tall
\* bar 15 to the right of both, two squares far away and a speck.
ContourRects ==
    {BB(0, 0, 10, 10), BB(0, 40, 10, 10), BB(25, 0, 10, 50),
     BB(100, 100, 10, 10), BB(100, 200, 20, 5), BB(200, 0, 5, 5)}

ContourMeans == {60, 200}

\* The contour lists findContours may return: different rectangles in any
\* order.
ContourLists ==
    {cs \in SeqsUpTo({Contour(r, m) : r \in ContourRects, m \in ContourMeans},
                     MaxContours) :
        \A i, j \in 1..Len(cs) : i # j => cs[i].rect # cs[j].rect}

\* The configurations of the detector: the default area and threshold, a
\* small region limit, and the comparison at half and at full scale.
DetectConfigs ==
    {CaptureConfig(30, 100, m, 1, d) : m \in {1, 2}, d \in {1, 2}}

\* _detect_changes(current, previous) for a pair of frames whose
\* thresholded difference has the contours cs.
DoDetectChanges ==
    /\ call.name = "none"
    /\ \E cs \in ContourLists :
           /\ call' = [name |-> "_detect_changes", contours |-> cs]
           /\ ret' = DetectChanges(cs, capture_config)
    /\ UNCHANGED <<config, cacheVars, pending, engine, inflight, pre, log, inserted, queryVars,
                   captureVars>>

InitDetect ==
    /\ InitCache([max_elements |-> MaxCap, max_history |-> MaxHist])
    /\ \E cfg \in DetectConfigs : InitScreenCapture(cfg)
    /\ pending = <<>>
    /\ engine = NewEngine

NextDetect == DoDetectChanges

SpecDetect == InitDetect /\ [][NextDetect]_vars

\* ===================================================================
\* ScreenCapture: start, stop, reset, capture_incremental
\* (capture.py:106-226, 351-355)
\* ===================================================================

\* How many captures a behaviour of SpecCapture makes, and how many spots
\* the screen can show.
MaxCaptures == 3
MaxSpots == 2

\* The monitor the capture is bound to at start(): its width and height.
Resolutions ==
    {[width |-> 800, height |-> 600], [width |-> 640, height |-> 480]}

\* The spots the screen can show, as the contours they leave in a
\* difference: two squares closer than the merge distance at half scale
\* and further apart at full scale, and one far away.
Spots ==
    <<Contour(BB(0, 0, 10, 10), 60), Contour(BB(0, 25, 10, 10), 200),
      Contour(BB(100, 100, 10, 10), 60)>>

\* What the screen shows: the set of spots that are lit.
Pictures == SUBSET (1..MaxSpots)

\* self._sct.grab(self.monitor) as a BGR array: shape (height, width, 3).
Grab(monitor, picture) ==
    [shape |-> <<monitor.height, monitor.width, 3>>, picture |-> picture]

\* cv2.cvtColor(image, cv2.COLOR_BGR2GRAY): shape (height, width).
Gray(image) ==
    [shape |-> <<image.shape[1], image.shape[2]>>, picture |-> image.picture]

\* absdiff, threshold and findContours on two gray frames of one shape: a
\* contour for every spot lit in one frame and not in the other.
FrameContours(current, previous) ==
    SelectSeq([i \in 1..Len(Spots) |-> [spot |-> Spots[i], index |-> i]],
              LAMBDA s : (s.index \in current.picture)
                             # (s.index \in previous.picture))

\* The contours without the index that told them apart.
ContoursOf(current, previous) ==
    [i \in 1..Len(FrameContours(current, previous)) |->
        FrameContours(current, previous)[i].spot]

CapturedFrame(image, timestamp, info) ==
    [image |-> image, timestamp |-> timestamp, monitor_info |-> info]

CaptureResult(frame, dirty_regions, is_full_capture, previous_frame_time) ==
    [frame |-> frame, dirty_regions |-> dirty_regions,
     is_full_capture |-> is_full_capture,
     previous_frame_time |-> previous_frame_time]

\* The record of a call of a method of ScreenCapture.
CaptureCall(name) == [name |-> name]

\* start(): a new mss handle, and the monitor as it is now.
DoStart ==
    /\ call.name # "start"
    /\ sct' = TRUE
    /\ \E m \in Resolutions : monitor_info' = <<m>>
    /\ call' = CaptureCall("start")
    /\ UNCHANGED <<capture_config, previous_frame, previous_frame_gray,
                   previous_time, clock, ret>>
    /\ UNCHANGED <<config, cacheVars, pending, engine, inflight, pre, log, inserted, queryVars>>

\* stop(): the handle is closed and the two frames are dropped.
DoStop ==
    /\ call.name # "stop"
    /\ sct' = FALSE
    /\ previous_frame' = <<>>
    /\ previous_frame_gray' = <<>>
    /\ call' = CaptureCall("stop")
    /\ UNCHANGED <<capture_config, previous_time, monitor_info, clock, ret>>
    /\ UNCHANGED <<config, cacheVars, pending, engine, inflight, pre, log, inserted, queryVars>>

\* A reset that forgets the time of the previous frame and keeps the frame.
DoResetTimeOnly ==
    /\ call.name # "reset"
    /\ previous_time' = 0
    /\ call' = CaptureCall("reset")
    /\ UNCHANGED <<capture_config, sct, monitor_info, clock, ret,
                   previous_frame, previous_frame_gray>>
    /\ UNCHANGED <<config, cacheVars, pending, engine, inflight, pre, log, inserted, queryVars>>

\* reset()
DoReset ==
    /\ call.name # "reset"
    /\ previous_frame' = <<>>
    /\ previous_frame_gray' = <<>>
    /\ previous_time' = 0
    /\ call' = CaptureCall("reset")
    /\ UNCHANGED <<capture_config, sct, monitor_info, clock, ret>>
    /\ UNCHANGED <<config, cacheVars, pending, engine, inflight, pre, log, inserted, queryVars>>

\* A capture_incremental whose resolution-change branch returns without
\* retaining the new frame.
CaptureIncrementalKeepingOld(picture, monitor) ==
    LET info == IF sct THEN monitor_info ELSE <<monitor>>
        frame == CapturedFrame(Grab(info[1], picture), clock + 1, info[1])
        frame_gray == Gray(frame.image)
    IN  /\ sct' = TRUE
        /\ monitor_info' = info
        /\ clock' = clock + 1
        /\ IF /\ previous_frame_gray # <<>>
              /\ frame_gray.shape # previous_frame_gray[1].shape
           THEN UNCHANGED <<previous_frame, previous_frame_gray, previous_time>>
           ELSE /\ previous_frame' = <<frame.image>>
                /\ previous_frame_gray' = <<frame_gray>>
                /\ previous_time' = frame.timestamp
        /\ call' = CaptureCall("capture_incremental")
        /\ ret' =
             IF previous_frame_gray = <<>>
             THEN CaptureResult(frame, <<>>, TRUE, 0)
             ELSE IF frame_gray.shape # previous_frame_gray[1].shape
             THEN CaptureResult(frame, <<>>, TRUE, 0)
             ELSE CaptureResult(
                      frame,
                      DetectChanges(ContoursOf(frame_gray,
                                               previous_frame_gray[1]),
                                    capture_config).regions,
                      FALSE, previous_time)
        /\ UNCHANGED capture_config
        /\ UNCHANGED <<config, cacheVars, pending, engine, inflight, pre, log, inserted,
                       queryVars>>

\* capture_incremental() while the screen shows picture; monitor is the
\* monitor start() finds when capture_full has to call it.
CaptureIncremental(picture, monitor) ==
    LET info == IF sct THEN monitor_info ELSE <<monitor>>
        frame == CapturedFrame(Grab(info[1], picture), clock + 1, info[1])
        frame_gray == Gray(frame.image)
    IN  /\ sct' = TRUE
        /\ monitor_info' = info
        /\ clock' = clock + 1
        /\ previous_frame' = <<frame.image>>
        /\ previous_frame_gray' = <<frame_gray>>
        /\ previous_time' = frame.timestamp
        /\ call' = CaptureCall("capture_incremental")
        /\ ret' =
             IF previous_frame_gray = <<>>
             THEN CaptureResult(frame, <<>>, TRUE, 0)
             ELSE IF frame_gray.shape # previous_frame_gray[1].shape
             THEN CaptureResult(frame, <<>>, TRUE, 0)
             ELSE CaptureResult(
                      frame,
                      DetectChanges(ContoursOf(frame_gray,
                                               previous_frame_gray[1]),
                                    capture_config).regions,
                      FALSE, previous_time)
        /\ UNCHANGED capture_config
        /\ UNCHANGED <<config, cacheVars, pending, engine, inflight, pre, log, inserted,
                       queryVars>>

DoCaptureIncremental ==
    /\ clock < MaxCaptures
    /\ \E picture \in Pictures, monitor \in Resolutions :
           CaptureIncremental(picture, monitor)

InitCaptureSpec ==
    /\ InitCache([max_elements |-> MaxCap, max_history |-> MaxHist])
    /\ \E cfg \in DetectConfigs : InitScreenCapture(cfg)
    /\ pending = <<>>
    /\ engine = NewEngine

NextCapture == DoStart \/ DoStop \/ DoReset \/ DoCaptureIncremental

SpecCapture == InitCaptureSpec /\ [][NextCapture]_vars

\* ===================================================================
\* Every operation of the cache, from max_elements = 0 on, on well-formed
\* and malformed elements (cache.py:102-567)
\* ===================================================================

\* clear(): the maps, the indexes and the history are emptied; the screen
\* size and the counters stay.
Clear ==
    /\ elements' = <<>>
    /\ windows' = <<>>
    /\ elements_by_label' = EmptyIndex
    /\ elements_by_type' = EmptyIndex
    /\ elements_by_window' = EmptyIndex
    /\ history' = <<>>
    /\ active_window' = None
    /\ last_update' = 0
    /\ pre' = Snapshot
    /\ call' = [NoCall EXCEPT !.name = "clear"]
    /\ ret' = NoDiff
    /\ log' = [i \in 1..Len(elements) |-> Event("delete", elements[i].id, FALSE)]
    /\ inserted' = <<>>
    /\ UNCHANGED <<config, screen_size, updates_count, queryVars>>

\* How many updates a behaviour of SpecTotal completes.
MaxTotalCalls == 2

\* UIElement(id=..., type=TEXT, ...) built with the identifier of the OK
\* button: one identifier, two kinds.
ForgedText ==
    [Create(Detection("button", BB(10, 10, 50, 20), "OK", None,
                      TRUE, TRUE, FALSE, "Main"))
        EXCEPT !.type = "text", !.label = "Go"]

\* UIElement.create on a BoundingBox of negative width.
InvertedButton ==
    Create(Detection("button", BB(10, 10, -50, 20), None, None,
                     TRUE, TRUE, FALSE, None))

\* The elements of SpecTotal: the OK button, the text and the two malformed
\* ones.
TotalElements == RingElements \cup {ForgedText, InvertedButton}

\* The configurations of SpecTotal: no room at all, or room for some.
TotalConfigs ==
    {[max_elements |-> m, max_history |-> h] :
        m \in {0, MaxCap - 1}, h \in {0, MaxHist}}

TotalUpdateFull ==
    /\ call.name = "none"
    /\ lookup.name = "none"
    /\ updates_count < MaxTotalCalls
    /\ \E elems \in SeqsUpTo(TotalElements, 1), si \in ScreenInfos :
           UpdateFull(ScreenState(Now, elems, si.windows, si.active_window,
                                  si.screen_size))
    /\ UNCHANGED <<pending, engine, inflight, captureVars>>

TotalUpdateIncremental ==
    /\ call.name = "none"
    /\ lookup.name = "none"
    /\ updates_count < MaxTotalCalls
    /\ \E elem \in TotalElements :
           \/ UpdateIncremental(<<elem>>, <<>>, <<>>)
           \/ UpdateIncremental(<<>>, <<elem.id>>, <<>>)
           \/ UpdateIncremental(<<>>, <<>>, <<elem>>)
    /\ UNCHANGED <<pending, engine, inflight, captureVars>>

TotalUpdateWindows ==
    /\ call.name = "none"
    /\ lookup.name = "none"
    /\ \E si \in ScreenInfos :
           /\ WindowsDict(si.windows) # windows
           /\ UpdateWindows(si.windows)
    /\ UNCHANGED <<pending, engine, inflight, captureVars>>

DoClear ==
    /\ call.name = "none"
    /\ lookup.name = "none"
    /\ elements # <<>> \/ windows # <<>>
    /\ Clear
    /\ UNCHANGED <<pending, engine, inflight, captureVars>>

InitTotal ==
    /\ \E cfg \in TotalConfigs : InitCache(cfg)
    /\ InitCapture
    /\ pending = <<>>
    /\ engine = NewEngine

NextTotal ==
    \/ TotalUpdateFull
    \/ TotalUpdateIncremental
    \/ TotalUpdateWindows
    \/ DoClear
    \/ DoGetElementById
    \/ DoGetElementByLabel
    \/ DoGetElementAt
    \/ DoQueryElements
    \/ DoGetWindowByTitle
    \/ Return

SpecTotal == InitTotal /\ [][NextTotal]_vars

\* ------------------------------------------- the typo lookup of a label

\* The Submit button and the text next to it.
SubmitButton ==
    Create(Detection("button", BB(200, 10, 50, 20), "Submit", None,
                     TRUE, TRUE, FALSE, None))

LabelDetections ==
    {Detection("button", BB(200, 10, 50, 20), "Submit", None,
               TRUE, TRUE, FALSE, None),
     Detection("text", BB(40, 25, 50, 20), "Go", "Go", TRUE, TRUE, FALSE, "Main"),
     Detection("button", BB(10, 10, 50, 20), None, None, TRUE, TRUE, FALSE, None)}

\* The labels asked for: two typos of Submit, its upper case, a stranger.
LabelQueries == {"Sbumit", "Sbuzzzmit", "SUBMIT", "zz"}

\* The thresholds: the default, and the integers next to the two scores.
LabelThresholds == {66, 67, DefaultThreshold, 83, 84}

\* update_full on the empty cache with a snapshot of the detections.
LabelFill ==
    /\ call.name = "none"
    /\ lookup.name = "none"
    /\ updates_count = 0
    /\ \E ds \in SeqsUpTo(LabelDetections, 2) :
           UpdateFull(ScreenState(Now, CreateAll(ds), <<>>, None, <<1920, 1080>>))
    /\ UNCHANGED <<pending, engine, inflight, captureVars>>

\* get_element_by_label(label, fuzzy, threshold)
LabelLookup ==
    \E label \in LabelQueries, fuzzy \in BOOLEAN, threshold \in LabelThresholds :
        Queried([Query("get_element_by_label") EXCEPT
                    !.label = label, !.fuzzy = fuzzy, !.threshold = threshold],
                GetElementByLabel(elements, elements_by_label, label, fuzzy,
                                  threshold))

InitLabels ==
    /\ InitCache([max_elements |-> MaxCap, max_history |-> MaxHist])
    /\ InitCapture
    /\ pending = <<>>
    /\ engine = NewEngine

NextLabels == LabelFill \/ LabelLookup \/ Return

SpecLabels == InitLabels /\ [][NextLabels]_vars

\* ---------------------------------- a reader beside the body of update_full

\* The longest snapshot handed to an update a reader may look into, and the
\* number of such updates.
MaxReadSnap == 2
MaxReadCalls == 2

\* The snapshots those updates get.
ReadSnapshots ==
    {ScreenState(1, CreateAll(ds), si.windows, si.active_window, si.screen_size) :
        ds \in SeqsUpTo(Universe, MaxReadSnap), si \in ScreenInfos}

\* update_full run from its first line to its return with no other caller
\* in between.
AtomicUpdateFull ==
    /\ inflight.stage = "idle"
    /\ updates_count < MaxReadCalls
    /\ \E state \in ReadSnapshots :
           UpdateFull([state EXCEPT !.timestamp = Now])
    /\ UNCHANGED <<pending, engine, inflight, captureVars>>

\* update_full up to its clears: the history append and _compute_diff.
BeginUpdateFull ==
    /\ inflight.stage = "idle"
    /\ updates_count < MaxReadCalls
    /\ \E s \in ReadSnapshots :
         LET state == [s EXCEPT !.timestamp = Now]
         IN  \E ordA \in Orders(AddedIds(elements, state.elements)),
                ordR \in Orders(RemovedIds(elements, state.elements)),
                ordC \in Orders(CommonIds(elements, state.elements)) :
               /\ inflight' =
                      [stage |-> "computed", state |-> state,
                       rest |-> state.elements,
                       diff |-> ComputeDiff(elements, state.elements,
                                            state.timestamp, ordA, ordR, ordC)]
               /\ call' = [NoCall EXCEPT !.name = "update_full", !.state = state]
    /\ history' = IF elements # <<>>
                  THEN DequeAppend(history, CurrentState, config.max_history)
                  ELSE history
    /\ pre' = Snapshot
    /\ ret' = NoDiff
    /\ log' = <<>>
    /\ UNCHANGED <<config, elements, windows, active_window, screen_size,
                   last_update, elements_by_label, elements_by_type,
                   elements_by_window, updates_count, pending, engine, inserted,
                   queryVars, captureVars>>

\* The four clears of update_full.
ClearMaps ==
    /\ inflight.stage = "computed"
    /\ StoreCore(Core(<<>>, EmptyIndex, EmptyIndex, EmptyIndex,
                      config.max_elements,
                      [i \in 1..Len(elements) |->
                          Event("delete", elements[i].id, FALSE)]))
    /\ inflight' = [inflight EXCEPT !.stage = "cleared"]
    /\ UNCHANGED <<config, windows, active_window, screen_size, last_update,
                   history, updates_count, pending, engine, pre, call, ret, queryVars,
                   captureVars>>

\* One turn of the loop of update_full: self._add_element(element).
InsertNext ==
    /\ inflight.stage = "cleared"
    /\ inflight.rest # <<>>
    /\ StoreCore(AddElement(Core(elements, elements_by_label, elements_by_type,
                                 elements_by_window, config.max_elements, log),
                            Head(inflight.rest)))
    /\ inflight' = [inflight EXCEPT !.rest = Tail(@)]
    /\ UNCHANGED <<config, windows, active_window, screen_size, last_update,
                   history, updates_count, pending, engine, pre, call, ret, queryVars,
                   captureVars>>

\* The last five assignments of update_full and its return.
FinishUpdateFull ==
    /\ inflight.stage = "cleared"
    /\ inflight.rest = <<>>
    /\ windows' = WindowsDict(inflight.state.windows)
    /\ active_window' = inflight.state.active_window
    /\ screen_size' = inflight.state.screen_size
    /\ last_update' = inflight.state.timestamp
    /\ updates_count' = updates_count + 1
    /\ ret' = inflight.diff
    /\ inflight' = Idle
    /\ UNCHANGED <<config, elements, elements_by_label, elements_by_type,
                   elements_by_window, history, pending, engine, pre, call, log,
                   inserted, queryVars, captureVars>>

\* The elements and windows a ScreenState lists.
Contents(elems, wins) == [elements |-> Range(elems), windows |-> Range(wins)]

\* A second caller reads current_state, at any point of the body of an
\* update_full under way or between two updates; the record keeps what it
\* got, where update_full stood, what the cache held when the last update
\* began, and that update's snapshot.
ReadBeside ==
    /\ lookup.name = "none"
    /\ lookup' = [name |-> "current_state", seen |-> CurrentState,
                  stage |-> inflight.stage,
                  before |-> Contents(pre.elements, pre.windows),
                  updated |-> call.name = "update_full",
                  state |-> call.state]
    /\ UNCHANGED <<config, cacheVars, pending, engine, inflight, captureVars, pre, call,
                   ret, log, inserted, cache_hits, cache_misses, held>>

InitReaders ==
    /\ InitCache([max_elements |-> MaxCap, max_history |-> MaxHist])
    /\ InitCapture
    /\ pending = <<>>
    /\ engine = NewEngine

NextReaders ==
    \/ AtomicUpdateFull
    \/ BeginUpdateFull
    \/ ClearMaps
    \/ InsertNext
    \/ FinishUpdateFull
    \/ ReadBeside

SpecReaders == InitReaders /\ [][NextReaders]_vars

\* ------------------------------------------ the same snapshot handed twice

\* A first pass that sets up some cache, then one pass detected twice.
RepeatPasses ==
    {<<p, s, s>> : p \in SeqsUpTo(Universe, MaxBatch),
                   s \in SeqsUpTo(Universe, MaxSnap)}

InitRepeat ==
    /\ \E cfg \in Configs : InitCache(cfg)
    /\ InitCapture
    /\ pending \in RepeatPasses
    /\ engine = NewEngine

NextRepeat == FeedPass

SpecRepeat == InitRepeat /\ [][NextRepeat]_vars

\* ------------------------------------ snapshots whose regions tie in the sort

\* A button to the right, and a wide text and a narrow button that share
\* one top-left corner below and left of it: the text reaches the first
\* button, the narrow button does not.
OrderDetections ==
    {Detection("button", BB(59, 0, 40, 10), None, None, TRUE, TRUE, FALSE, None),
     Detection("text", BB(0, 5, 79, 10), None, None, TRUE, TRUE, FALSE, None),
     Detection("button", BB(0, 5, 40, 10), None, None, TRUE, TRUE, FALSE, None)}

\* update_full with a snapshot of those detections; the three id sets of
\* _compute_diff are enumerated in any order.
OrderUpdateFull ==
    /\ call.name = "none"
    /\ updates_count < MaxCalls
    /\ \E ds \in SeqsUpTo(OrderDetections, MaxSnap) :
           UpdateFull(ScreenState(Now, CreateAll(ds), <<>>, None, <<1920, 1080>>))
    /\ UNCHANGED <<pending, engine, inflight, captureVars>>

InitOrders ==
    /\ InitCache([max_elements |-> MaxCap + 1, max_history |-> MaxHist])
    /\ InitCapture
    /\ pending = <<>>
    /\ engine = NewEngine

NextOrders == OrderUpdateFull \/ Return

SpecOrders == InitOrders /\ [][NextOrders]_vars

\* ===================================================================
\* DesktopVisualEngine.capture_and_analyze (engine.py:100-258)
\* ===================================================================

\* How many cycles a behaviour of SpecEngine makes, and how many elements a
\* detection of the whole screen, and of one region, returns at most.
MaxCycles == 2
MaxScreenFinds == 2
MaxRegionFinds == 1

\* What the detector can find on the screen: a button in the first spot,
\* with one label or another, a button in the second spot, a button just
\* below the second spot in the grid cell of the button inside it (one id),
\* and a text away from both spots.
EngineDetections ==
    {Detection("button", BB(5, 5, 10, 10), "OK", None, TRUE, TRUE, FALSE, None),
     Detection("button", BB(5, 5, 10, 10), "Go", None, TRUE, TRUE, FALSE, None),
     Detection("button", BB(5, 60, 10, 10), "OK", None, TRUE, TRUE, FALSE, None),
     Detection("button", BB(15, 75, 10, 10), "Go", None, TRUE, TRUE, FALSE, None),
     Detection("text", BB(40, 25, 50, 20), "Go", "Go", TRUE, TRUE, FALSE, "Main")}

\* self._detector.detect(region_image, region_offset): the elements found
\* lie inside the region.
RegionFinds(region) ==
    SeqsUpTo({d \in EngineDetections :
                 /\ region.bounds.x <= d.bounds.x
                 /\ region.bounds.y <= d.bounds.y
                 /\ X2(d.bounds) <= X2(region.bounds)
                 /\ Y2(d.bounds) <= Y2(region.bounds)},
             MaxRegionFinds)

\* The outcomes of the first loop of _analyze_regions: one detection per
\* dirty region, concatenated in the order of the regions.
RECURSIVE AllRegionFinds(_)
AllRegionFinds(regions) ==
    IF regions = <<>> THEN {<<>>}
    ELSE {CreateAll(first) \o rest :
             first \in RegionFinds(Head(regions)),
             rest \in AllRegionFinds(Tail(regions))}

\* any(region.bounds.intersects(elem.bounds) for region in dirty_regions)
InChangedRegion(elem, dirty_regions) ==
    \E i \in 1..Len(dirty_regions) :
        Intersects(dirty_regions[i].bounds, elem.bounds)

\* An _analyze_regions that returns the detections alone.
AnalyzeRegionsDetectedOnly(detected, cached, dirty_regions) == detected

\* _analyze_regions: the detections of the dirty regions, then the cached
\* elements that meet no dirty region.
AnalyzeRegions(detected, cached, dirty_regions) ==
    detected
    \o SelectSeq(cached, LAMBDA elem : ~InChangedRegion(elem, dirty_regions))

\* The CaptureResult of capture_incremental when the frame retained is
\* gray_before (none: <<>>), taken at time_before.
CaptureResultOf(frame, gray_before, time_before, cfg) ==
    IF gray_before = <<>>
    THEN CaptureResult(frame, <<>>, TRUE, 0)
    ELSE IF Gray(frame.image).shape # gray_before[1].shape
    THEN CaptureResult(frame, <<>>, TRUE, 0)
    ELSE CaptureResult(frame,
                       DetectChanges(ContoursOf(Gray(frame.image),
                                                gray_before[1]), cfg).regions,
                       FALSE, time_before)

\* ScreenState(timestamp=now, elements, windows, active_window=the title of
\* the first active window, screen_size)
CycleState(elems, si) ==
    ScreenState(Now, elems, si.windows, FirstActiveTitle(si.windows, None),
                si.screen_size)

\* The branch of capture_and_analyze taken when nothing changed:
\* update_windows, and an empty VisualDiff.
NoChangeCycle(wins) ==
    /\ windows' = WindowsDict(wins)
    /\ active_window' = FirstActiveTitle(wins, active_window)
    /\ pre' = Snapshot
    /\ call' = [NoCall EXCEPT !.name = "update_windows",
                             !.state.windows = wins]
    /\ ret' = VisualDiff(Now, <<>>, 0, 0, 0)
    /\ log' = <<>>
    /\ UNCHANGED <<config, elements, screen_size, last_update,
                   elements_by_label, elements_by_type, elements_by_window,
                   history, updates_count, inserted, queryVars>>

\* capture_and_analyze(force_full) while the screen shows picture; monitor
\* is the monitor start() finds, si the windows and screen size the system
\* reports.
CaptureAndAnalyze(force_full, picture, monitor, si) ==
    LET gray_before == IF force_full THEN <<>> ELSE previous_frame_gray
        time_before == IF force_full THEN 0 ELSE previous_time
        info == IF sct THEN monitor_info ELSE <<monitor>>
        frame == CapturedFrame(Grab(info[1], picture), clock + 1, info[1])
        capture_result == CaptureResultOf(frame, gray_before, time_before,
                                          capture_config)
        cycle(elems) == [force_full |-> force_full,
                         capture_result |-> capture_result,
                         elements |-> elems]
        counted(elems) ==
            engine' = [engine EXCEPT !.last_capture_time = clock + 1,
                                     !.capture_count = @ + 1,
                                     !.cycle = <<cycle(elems)>>]
    IN  /\ sct' = TRUE
        /\ monitor_info' = info
        /\ clock' = clock + 1
        /\ previous_frame' = <<frame.image>>
        /\ previous_frame_gray' = <<Gray(frame.image)>>
        /\ previous_time' = frame.timestamp
        /\ IF capture_result.is_full_capture
           THEN \E ds \in SeqsUpTo(EngineDetections, MaxScreenFinds) :
                    /\ UpdateFull(CycleState(CreateAll(ds), si))
                    /\ counted(CreateAll(ds))
           ELSE IF capture_result.dirty_regions = <<>>
           THEN /\ NoChangeCycle(si.windows)
                /\ counted(<<>>)
           ELSE \E detected \in AllRegionFinds(capture_result.dirty_regions) :
                    LET elems == AnalyzeRegions(detected, CurrentState.elements,
                                                capture_result.dirty_regions)
                    IN  /\ UpdateFull(CycleState(elems, si))
                        /\ counted(elems)
        /\ UNCHANGED <<capture_config, pending, inflight>>

DoCaptureAndAnalyze ==
    /\ clock < MaxCycles
    /\ \E force_full \in BOOLEAN, picture \in Pictures,
          monitor \in IF sct THEN {monitor_info[1]} ELSE Resolutions,
          si \in ScreenInfos :
           CaptureAndAnalyze(force_full, picture, monitor, si)

\* DesktopVisualEngine(config): a cache, a capture and no cycle yet.
InitEngine ==
    /\ InitCache([max_elements |-> MaxCap, max_history |-> MaxHist])
    /\ InitCapture
    /\ pending = <<>>
    /\ engine = NewEngine

NextEngine == DoCaptureAndAnalyze

SpecEngine == InitEngine /\ [][NextEngine]_vars

\* ------------------------------------------------------------- properties

\* The ids listed in the added, removed and modified element lists of a diff.
AddedIn(diff) ==
    UNION {IdSet(diff.changed_regions[i].added_elements) :
              i \in 1..Len(diff.changed_regions)}

RemovedIn(diff) ==
    UNION {IdSet(diff.changed_regions[i].removed_elements) :
              i \in 1..Len(diff.changed_regions)}

ModifiedIn(diff) ==
    UNION {IdSet(diff.changed_regions[i].modified_elements) :
              i \in 1..Len(diff.changed_regions)}

\* How often x occurs in the list s.
Count(s, x) == Cardinality({i \in 1..Len(s) : s[i] = x})

\* The list an index holds under a key ([] when the key is absent).
Listed(index, key) == IF key \in DOMAIN index THEN index[key] ELSE <<>>

\* An "evict" event was logged by the last call.
Evicted == \E i \in 1..Len(log) : log[i].op = "evict"

\* C1: the number of cached elements never exceeds max_elements (>= 1),
\* whatever full and incremental updates were made.
C1_CapacityNeverExceeded == Len(elements) <= config.max_elements

\* A call that evicted for capacity and left the cache full.
C1_Witness == Evicted /\ Len(elements) = config.max_elements

\* Every "evict" event of the list names the id that was least recently
\* inserted when it was logged, ins being that order before the list.
RECURSIVE EvictionsFollow(_, _)
EvictionsFollow(ins, events) ==
    IF events = <<>> THEN TRUE
    ELSE LET ev == Head(events)
         IN  /\ ev.op = "evict" => (ins # <<>> /\ Head(ins) = ev.id)
             /\ EvictionsFollow(ReplayInserted(ins, <<ev>>), Tail(events))

\* C2: every element evicted for capacity is the least recently inserted one
\* still present, each add, re-add or modify of an id counting as that id's
\* most recent insertion.
C2_EvictsLeastRecentlyInserted == EvictionsFollow(pre.inserted, log)

\* C3: update_full(N) on a cache holding O returns total_added = |N \ O| and
\* total_removed = |O \ N| (as id sets), and no id is listed in two of the
\* added, removed and modified element lists of the diff.
C3_DiffCounts ==
    call.name = "update_full" =>
        /\ ret.total_added =
               Cardinality(IdSet(call.state.elements) \ IdSet(pre.elements))
        /\ ret.total_removed =
               Cardinality(IdSet(pre.elements) \ IdSet(call.state.elements))
        /\ AddedIn(ret) \cap RemovedIn(ret) = {}
        /\ AddedIn(ret) \cap ModifiedIn(ret) = {}
        /\ RemovedIn(ret) \cap ModifiedIn(ret) = {}

\* An update_full that reported an added, a removed and a modified element.
C3_Witness ==
    /\ call.name = "update_full"
    /\ AddedIn(ret) # {}
    /\ RemovedIn(ret) # {}
    /\ ModifiedIn(ret) # {}

\* The second of two detection passes has been handed to update_full: the
\* cache held the first pass's element and the snapshot holds the second's.
SecondPass ==
    /\ call.name = "update_full"
    /\ pending = <<>>
    /\ Len(pre.elements) = 1
    /\ Len(call.state.elements) = 1

FirstSeen == pre.elements[1]

SecondSeen == call.state.elements[1]

\* x, y, width or height differs by more than n.
MovedBeyond(a, b, n) ==
    \/ Abs(a.x - b.x) > n
    \/ Abs(a.y - b.y) > n
    \/ Abs(a.width - b.width) > n
    \/ Abs(a.height - b.height) > n

\* Label, text and the three flags are equal.
SameAttributes(old, new) ==
    /\ old.label = new.label
    /\ old.text = new.text
    /\ old.is_enabled = new.is_enabled
    /\ old.is_visible = new.is_visible
    /\ old.is_focused = new.is_focused

\* Some coordinate moved by exactly n and none by more.
MovedExactly(a, b, n) ==
    /\ ~MovedBeyond(a, b, n)
    /\ \/ Abs(a.x - b.x) = n
       \/ Abs(a.y - b.y) = n
       \/ Abs(a.width - b.width) = n
       \/ Abs(a.height - b.height) = n

\* C4: in update_full an id present before and after is reported as modified
\* exactly when a coordinate moved by more than position_tolerance or the
\* label, the text or a flag differs; a move by exactly the tolerance with
\* nothing else changed is not reported.
C4_ModifiedIffChanged ==
    (SecondPass /\ FirstSeen.id = SecondSeen.id) =>
        /\ (SecondSeen.id \in ModifiedIn(ret)) <=>
               (\/ MovedBeyond(FirstSeen.bounds, SecondSeen.bounds, PositionTolerance)
                \/ ~SameAttributes(FirstSeen, SecondSeen))
        /\ ret.total_modified = Cardinality(ModifiedIn(ret))
        /\ (/\ MovedExactly(FirstSeen.bounds, SecondSeen.bounds, PositionTolerance)
            /\ SameAttributes(FirstSeen, SecondSeen))
           => (ret.total_modified = 0 /\ ret.changed_regions = <<>>)

\* The second pass found the control moved by exactly the tolerance, nothing
\* else changed, and the diff is empty.
C4_Witness ==
    /\ SecondPass
    /\ FirstSeen.id = SecondSeen.id
    /\ MovedExactly(FirstSeen.bounds, SecondSeen.bounds, PositionTolerance)
    /\ SameAttributes(FirstSeen, SecondSeen)
    /\ ret.changed_regions = <<>>

\* C5: after update_full(S), S holding at most max_elements distinct ids, the
\* cache holds exactly the ids of S and its windows are the windows of S.
C5_FullUpdateReplaces ==
    (/\ call.name = "update_full"
     /\ Cardinality(IdSet(call.state.elements)) <= config.max_elements)
    => /\ IdSet(elements) = IdSet(call.state.elements)
       /\ Range(windows) = Range(call.state.windows)

\* C6: an id is listed under a lower-cased label, a kind or a window title
\* exactly when the element stored under that id has that label, kind or
\* window title, and then exactly once.
C6_IndexesAgree ==
    /\ \A key \in DOMAIN elements_by_label \cup
                  {Lower(elements[i].label) : i \in 1..Len(elements)} :
         \A id \in Range(Listed(elements_by_label, key)) \cup IdSet(elements) :
            Count(Listed(elements_by_label, key), id) =
                IF /\ DictHas(elements, id)
                   /\ Truthy(DictGet(elements, id).label)
                   /\ Lower(DictGet(elements, id).label) = key
                THEN 1 ELSE 0
    /\ \A key \in DOMAIN elements_by_type \cup
                  {elements[i].type : i \in 1..Len(elements)} :
         \A id \in Range(Listed(elements_by_type, key)) \cup IdSet(elements) :
            Count(Listed(elements_by_type, key), id) =
                IF DictHas(elements, id) /\ DictGet(elements, id).type = key
                THEN 1 ELSE 0
    /\ \A key \in DOMAIN elements_by_window \cup
                  {elements[i].window_title : i \in 1..Len(elements)} :
         \A id \in Range(Listed(elements_by_window, key)) \cup IdSet(elements) :
            Count(Listed(elements_by_window, key), id) =
                IF /\ DictHas(elements, id)
                   /\ Truthy(DictGet(elements, id).window_title)
                   /\ DictGet(elements, id).window_title = key
                THEN 1 ELSE 0

\* The OK button with its default flags at the given place.
OkButtonAt(e, bounds) ==
    /\ e.type = "button"
    /\ e.label = "OK"
    /\ e.text = None
    /\ e.is_enabled /\ e.is_visible /\ ~e.is_focused
    /\ e.bounds = bounds

\* The cache held the OK button at `from` and the snapshot holds it at `to`.
OkButtonMoved(from, to) ==
    /\ SecondPass
    /\ OkButtonAt(FirstSeen, from)
    /\ OkButtonAt(SecondSeen, to)

\* The bounds of the regions of a diff, in order.
RegionBounds(diff) ==
    [i \in 1..Len(diff.changed_regions) |-> diff.changed_regions[i].bounds]

\* C7 as stated: the button created at (10,10,50,20) and then at
\* (10,40,50,20) gives zero added, zero removed, one modified and one region
\* with the union (10,10,50,50) as bounds.
C7_MovedButtonIsModified ==
    OkButtonMoved(BB(10, 10, 50, 20), BB(10, 40, 50, 20)) =>
        /\ ret.total_added = 0
        /\ ret.total_removed = 0
        /\ ret.total_modified = 1
        /\ RegionBounds(ret) = <<BB(10, 10, 50, 50)>>

\* C7 (amended): y = 10 and y = 40 lie in different grid cells, so the two
\* detections carry different ids and the diff has one added, one removed,
\* no modified element and the two rectangles as separate regions; a move
\* inside the grid cell, to (10,16,50,20), gives no added, no removed, one
\* modified element and one region with the union (10,10,50,26) as bounds.
C7_MovedButtonAcrossCells ==
    /\ OkButtonMoved(BB(10, 10, 50, 20), BB(10, 40, 50, 20)) =>
          /\ ret.total_added = 1
          /\ ret.total_removed = 1
          /\ ret.total_modified = 0
          /\ RegionBounds(ret) = <<BB(10, 10, 50, 20), BB(10, 40, 50, 20)>>
          /\ AddedIn(ret) = {SecondSeen.id}
          /\ RemovedIn(ret) = {FirstSeen.id}
    /\ OkButtonMoved(BB(10, 10, 50, 20), BB(10, 16, 50, 20)) =>
          /\ ret.total_added = 0
          /\ ret.total_removed = 0
          /\ ret.total_modified = 1
          /\ RegionBounds(ret) = <<BB(10, 10, 50, 26)>>

\* The scenario of C7 has run.
C7_Witness ==
    /\ OkButtonMoved(BB(10, 10, 50, 20), BB(10, 40, 50, 20))
    /\ Len(ret.changed_regions) = 2

\* The two rectangles have equal floor(x/20), floor(y/20), floor(width/20)
\* and floor(height/20).
SameCell(a, b) ==
    /\ a.x \div 20 = b.x \div 20
    /\ a.y \div 20 = b.y \div 20
    /\ a.width \div 20 = b.width \div 20
    /\ a.height \div 20 = b.height \div 20

\* x, y, width and height each differ by less than 20.
CloserThanCell(a, b) ==
    /\ Abs(a.x - b.x) < 20
    /\ Abs(a.y - b.y) < 20
    /\ Abs(a.width - b.width) < 20
    /\ Abs(a.height - b.height) < 20

\* C8: two detections of one kind whose rectangles fall in the same grid
\* cell get the same id, whatever their labels and texts.
C8_SameCellSameId ==
    (/\ SecondPass
     /\ FirstSeen.type = SecondSeen.type
     /\ SameCell(FirstSeen.bounds, SecondSeen.bounds))
    => FirstSeen.id = SecondSeen.id

\* Two passes found one kind in one cell at different places with different
\* label and text, and the ids agree.
C8_Witness ==
    /\ SecondPass
    /\ FirstSeen.type = SecondSeen.type
    /\ SameCell(FirstSeen.bounds, SecondSeen.bounds)
    /\ FirstSeen.bounds # SecondSeen.bounds
    /\ FirstSeen.label # SecondSeen.label
    /\ FirstSeen.text # SecondSeen.text
    /\ FirstSeen.id = SecondSeen.id

RemovedOnlyMissing ==
    /\ call.name = "update_incremental"
    /\ call.added = <<>>
    /\ call.modified = <<>>
    /\ call.removed # <<>>
    /\ \A i \in 1..Len(call.removed) : ~DictHas(pre.elements, call.removed[i])

\* C10: update_incremental with nothing but ids that are not cached to remove
\* leaves the element map and the three indexes as they were and returns a
\* diff without regions.
C10_RemoveMissingIsNoOp ==
    RemovedOnlyMissing =>
        /\ elements = pre.elements
        /\ elements_by_label = pre.by_label
        /\ elements_by_type = pre.by_type
        /\ elements_by_window = pre.by_window
        /\ ret.changed_regions = <<>>

\* Such a call was made on a cache that holds elements.
C10_Witness == RemovedOnlyMissing /\ pre.elements # <<>>

\* The element is in the modified list of the last update_incremental, once,
\* and its id was neither cached when the call began nor in the added list.
ModifyOfUncached(e) ==
    /\ call.name = "update_incremental"
    /\ Count([i \in 1..Len(call.modified) |-> call.modified[i].id], e.id) = 1
    /\ e \in Range(call.modified)
    /\ ~DictHas(pre.elements, e.id)
    /\ e.id \notin IdSet(call.added)

\* The last call evicted the id after it had inserted it.
EvictedAfterInsert(id) ==
    \E i, j \in 1..Len(log) :
        /\ i < j
        /\ log[i].op = "insert" /\ log[i].id = id
        /\ log[j].op = "evict" /\ log[j].id = id

\* C11: a modified element whose id is not cached is inserted (and stays
\* cached unless the same call evicts it again for capacity), it is among the
\* added_elements of a region of the returned diff and in no
\* modified_elements list.
C11_ModifyUncachedIsAddition ==
    \A e \in Range(call.modified) :
        ModifyOfUncached(e) =>
            /\ \E i \in 1..Len(log) :
                   log[i] = Event("insert", e.id, TRUE)
            /\ \/ DictHas(elements, e.id) /\ DictGet(elements, e.id) = e
               \/ EvictedAfterInsert(e.id)
            /\ \E i \in 1..Len(ret.changed_regions) :
                   e \in Range(ret.changed_regions[i].added_elements)
            /\ e.id \notin ModifiedIn(ret)

\* A call modified an uncached id next to a cached one and the element is
\* now cached.
C11_Witness ==
    \E e \in Range(call.modified) :
        /\ ModifyOfUncached(e)
        /\ pre.elements # <<>>
        /\ DictHas(elements, e.id)
        /\ e.id \in AddedIn(ret)

\* The number of cached elements stays below max_elements from the given
\* size on through the events of a call.
RECURSIVE StaysBelow(_, _, _)
StaysBelow(size, events, max_elements) ==
    /\ size < max_elements
    /\ \/ events = <<>>
       \/ StaysBelow(IF Head(events).op = "insert" /\ Head(events).fresh
                     THEN size + 1
                     ELSE IF Head(events).op = "delete" THEN size - 1
                     ELSE size,
                     Tail(events), max_elements)

\* The last call was update_incremental and the cache stayed below
\* max_elements throughout.
IncrementalBelowCapacity ==
    /\ call.name = "update_incremental"
    /\ StaysBelow(Len(pre.elements), log, config.max_elements)

\* Cached before the last call under an id that none of its lists names.
Untouched(e) ==
    /\ e \in Range(pre.elements)
    /\ e.id \notin IdSet(call.added) \cup Range(call.removed)
                   \cup IdSet(call.modified)

\* The element is found by id, under its label, under its kind and at its
\* place.
Retrievable(e) ==
    /\ GetElementById(elements, e.id).found = <<e>>
    /\ Truthy(e.label) =>
          /\ e.id \in Range(IndexGet(elements_by_label, Lower(e.label)))
          /\ e \in Range(QueryElements(elements, elements_by_type, e.label,
                                       None, None, <<>>, DefaultLimit))
    /\ e \in Range(QueryElements(elements, elements_by_type, None, e.type,
                                 None, <<>>, DefaultLimit))
    /\ e \in Range(QueryElements(elements, elements_by_type, None, None,
                                 None, <<e.bounds>>, DefaultLimit))
    /\ GetElementAt(elements, e.bounds.x, e.bounds.y).found # <<>>

\* C12: an update_incremental during which the cache stays below
\* max_elements leaves every cached element that none of its three lists
\* names as it was, and the element is still found by id, label, kind and
\* position.
C12_IncrementalLeavesOthers ==
    IncrementalBelowCapacity =>
        \A e \in Range(pre.elements) : Untouched(e) => Retrievable(e)

\* Such a call removed one element and added another next to an untouched
\* labelled one.
C12_Witness ==
    /\ IncrementalBelowCapacity
    /\ \E e \in Range(pre.elements) : Untouched(e) /\ Truthy(e.label)
    /\ \E i \in 1..Len(log) : log[i].op = "delete"
    /\ \E i \in 1..Len(log) : log[i].op = "insert"

\* The last query was one of the three counted lookups.
CountedLookup ==
    lookup.name \in {"get_element_by_id", "get_element_by_label",
                     "get_element_at"}

\* A cached element matches the last lookup: it carries the id, or a label
\* that the label lookup accepts (equal when lower-cased or, with fuzzy
\* matching, similar at or above the threshold), or bounds holding the point.
Matches(e) ==
    CASE lookup.name = "get_element_by_id" -> e.id = lookup.element_id
      [] lookup.name = "get_element_by_label" ->
            /\ Truthy(e.label)
            /\ \/ Lower(e.label) = Lower(lookup.label)
               \/ /\ lookup.fuzzy
                  /\ ScoreAtLeast(FuzzRatio(Lower(lookup.label), Lower(e.label)),
                                  lookup.threshold)
                  /\ ScoreGreater(FuzzRatio(Lower(lookup.label), Lower(e.label)),
                                  Score(0, 1))
      [] lookup.name = "get_element_at" -> Contains(e.bounds, lookup.x, lookup.y)
      [] OTHER -> FALSE

\* C13: a get_element_by_id, get_element_by_label or get_element_at call
\* bumps exactly one counter by one; with no matching element cached it
\* returns none and counts a miss, otherwise it returns a cached element that
\* matches and counts a hit.
C13_LookupCountsOnce ==
    CountedLookup =>
        /\ cache_hits + cache_misses = 1
        /\ IF \E e \in Range(elements) : Matches(e)
           THEN /\ cache_hits = 1
                /\ lookup.found # <<>>
                /\ lookup.found[1] \in Range(elements)
                /\ Matches(lookup.found[1])
           ELSE /\ cache_misses = 1
                /\ lookup.found = <<>>

\* The similarity of a labelled element's label to the label asked for.
LabelScore(e) == FuzzRatio(Lower(lookup.label), Lower(e.label))

\* The cached elements that carry a label.
Labelled == {e \in Range(elements) : Truthy(e.label)}

\* C14: get_element_by_label returns an element whose lower-cased label
\* equals the lower-cased query whenever one is cached; failing that and
\* with fuzzy matching on, it returns a labelled element of the highest score
\* if that score reaches the threshold; otherwise it returns none.
C14_ExactLabelWins ==
    lookup.name = "get_element_by_label" =>
        IF \E e \in Labelled : Lower(e.label) = Lower(lookup.label)
        THEN /\ lookup.found # <<>>
             /\ lookup.found[1] \in Labelled
             /\ Lower(lookup.found[1].label) = Lower(lookup.label)
        ELSE IF /\ lookup.fuzzy
                /\ \E e \in Labelled : ScoreAtLeast(LabelScore(e), lookup.threshold)
        THEN /\ lookup.found # <<>>
             /\ lookup.found[1] \in Labelled
             /\ ScoreAtLeast(LabelScore(lookup.found[1]), lookup.threshold)
             /\ \A e \in Labelled :
                    ~ScoreGreater(LabelScore(e), LabelScore(lookup.found[1]))
        ELSE lookup.found = <<>>

\* The cached elements whose bounds hold the point of the last lookup.
Containing == {e \in Range(elements) : Contains(e.bounds, lookup.x, lookup.y)}

\* The place of an id in the iteration order of the element map, the order
\* in which its keys were inserted.
PlaceOf(id) == CHOOSE i \in 1..Len(elements) : elements[i].id = id

Satisfies(e) ==
    /\ lookup.label # None =>
          /\ Truthy(e.label)
          /\ IsSubstring(Lower(lookup.label), Lower(e.label))
    /\ lookup.element_type # None => e.type = lookup.element_type
    /\ lookup.window_title # None =>
          /\ Truthy(e.window_title)
          /\ IsSubstring(Lower(lookup.window_title), Lower(e.window_title))
    /\ lookup.bounds # <<>> => Intersects(lookup.bounds[1], e.bounds)

\* The first n elements of a list.
FirstN(s, n) == SubSeq(s, 1, Min2(n, Len(s)))

\* C16: query_elements returns at most limit elements, each cached and
\* passing every filter given, none twice, and with a kind filter the result
\* is the first limit matches of a scan of the element map in insertion
\* order.
C16_QueryFiltersAndLimit ==
    lookup.name = "query_elements" =>
        /\ Len(lookup.found) <= lookup.limit
        /\ \A i \in 1..Len(lookup.found) :
              /\ lookup.found[i] \in Range(elements)
              /\ Satisfies(lookup.found[i])
        /\ \A i, j \in 1..Len(lookup.found) :
              i # j => lookup.found[i] # lookup.found[j]
        /\ lookup.element_type # None =>
              lookup.found = FirstN(SelectSeq(elements, Satisfies), lookup.limit)

\* The last call was update_full or update_incremental.
Updated == call.name \in {"update_full", "update_incremental"}

\* The snapshot holds the cache contents the last call found.
HoldsPrevious(s) ==
    /\ s.elements = pre.elements
    /\ s.windows = pre.windows
    /\ s.active_window = pre.active_window
    /\ s.screen_size = pre.screen_size

\* The history without its newest snapshot.
Older(h) == SubSeq(h, 1, Len(h) - 1)

\* C17: update_full and update_incremental append to the history one
\* snapshot of the elements, windows, active window and screen size the call
\* found when the cache held an element (a history of max_history 0 drops it
\* at once), and leave the history alone when it held none.
C17_ArchivesPreviousState ==
    Updated =>
        IF pre.elements # <<>> /\ config.max_history > 0
        THEN /\ history # <<>>
             /\ HoldsPrevious(history[Len(history)])
             /\ Older(history) = IF Len(pre.history) < config.max_history
                                 THEN pre.history
                                 ELSE Tail(pre.history)
        ELSE history = pre.history

\* An update found elements and windows, archived them and changed both.
C17_Witness ==
    /\ Updated
    /\ pre.elements # <<>>
    /\ pre.windows # <<>>
    /\ history # <<>>
    /\ history[Len(history)].elements # elements
    /\ history[Len(history)].windows # windows

\* C18: the history never holds more than max_history snapshots, and an
\* append to a full history drops the oldest snapshot and keeps the others in
\* their order.
C18_HistoryIsBoundedRing ==
    /\ Len(history) <= config.max_history
    /\ (/\ Updated
        /\ pre.elements # <<>>
        /\ pre.history # <<>>
        /\ Len(pre.history) = config.max_history)
       => /\ Len(history) = config.max_history
          /\ Older(history) = Tail(pre.history)

\* An update appended to a full history of two different snapshots.
C18_Witness ==
    /\ Updated
    /\ pre.elements # <<>>
    /\ config.max_history = MaxRing
    /\ Len(pre.history) = MaxRing
    /\ pre.history[1] # pre.history[2]
    /\ history[1] = pre.history[2]

\* One step keeps the snapshots of the history, but for the oldest when a
\* new one is appended, and those a caller holds.
SnapshotsKept ==
    /\ \/ history' = history
       \/ /\ history' # <<>>
          /\ \/ Older(history') = history
             \/ history # <<>> /\ Older(history') = Tail(history)
    /\ \A i \in 1..Len(held) : Len(held') >= i /\ held'[i] = held[i]

OverlapOrTouch(a, b) ==
    /\ a.x <= b.x + b.width
    /\ b.x <= a.x + a.width
    /\ a.y <= b.y + b.height
    /\ b.y <= a.y + a.height

\* C20: no two ChangedRegions of a diff returned by update_full or
\* update_incremental overlap or touch.
C20_RegionsAreDisjoint ==
    Updated =>
        \A i, j \in 1..Len(ret.changed_regions) :
            i # j => ~OverlapOrTouch(ret.changed_regions[i].bounds,
                                     ret.changed_regions[j].bounds)

\* ===================================================================
\* Claims C21..C30
\* ===================================================================

\* The last call merged a list that a merge had returned.
Remerged == call.name = "_merge_changed_regions" /\ call.merged_before

\* C21: applying the region merge to the output of a previous merge yields
\* the same list of regions, bounds and element lists alike.
C21_RemergeIsIdentity == Remerged => ret = call.regions

\* The last call was update_full.
FullDiff == call.name = "update_full"

\* outer encloses inner: no edge of inner lies outside outer.
Encloses(outer, inner) ==
    /\ outer.x <= inner.x
    /\ outer.y <= inner.y
    /\ X2(outer) >= X2(inner)
    /\ Y2(outer) >= Y2(inner)

\* The list of region under one of the three kinds of change.
ListOf(region, kind) ==
    CASE kind = "added" -> region.added_elements
      [] kind = "removed" -> region.removed_elements
      [] kind = "modified" -> region.modified_elements

\* The places <<region, kind, position>> at which elem is listed in the diff.
PlacesInDiff(diff, elem) ==
    {p \in (1..Len(diff.changed_regions)) \X {"added", "removed", "modified"}
              \X (1..MaxSnap + MaxCap) :
        /\ p[3] <= Len(ListOf(diff.changed_regions[p[1]], p[2]))
        /\ ListOf(diff.changed_regions[p[1]], p[2])[p[3]] = elem}

\* elem is listed once in the diff, as kind, in a region enclosing every
\* rectangle of rects.
InOneRegion(diff, elem, kind, rects) ==
    \E i \in 1..Len(diff.changed_regions), k \in 1..MaxSnap + MaxCap :
        /\ PlacesInDiff(diff, elem) = {<<i, kind, k>>}
        /\ \A r \in rects : Encloses(diff.changed_regions[i].bounds, r)

\* The ids update_full found modified: cached before, in the new list, and
\* changed beyond tolerance or in an attribute.
ModifiedIdsOf(old, new_list) ==
    {id \in CommonIds(old, new_list) :
        ElementChanged(DictGet(old, id), NewElement(new_list, id))}

\* C22: in the diff update_full returns, every added, removed and modified
\* element is listed in exactly one region; the region's bounds enclose the
\* element's bounds and, for a modified element, its bounds before the update.
C22_EveryChangeInOneRegion ==
    FullDiff =>
        /\ \A id \in AddedIds(pre.elements, call.state.elements) :
               LET e == NewElement(call.state.elements, id)
               IN  InOneRegion(ret, e, "added", {e.bounds})
        /\ \A id \in RemovedIds(pre.elements, call.state.elements) :
               LET e == DictGet(pre.elements, id)
               IN  InOneRegion(ret, e, "removed", {e.bounds})
        /\ \A id \in ModifiedIdsOf(pre.elements, call.state.elements) :
               LET e == NewElement(call.state.elements, id)
               IN  InOneRegion(ret, e, "modified",
                               {e.bounds, DictGet(pre.elements, id).bounds})

\* update_full reported a modified element that had moved, in a region that
\* is larger than the element.
C22_Witness ==
    /\ FullDiff
    /\ \E id \in ModifiedIdsOf(pre.elements, call.state.elements) :
           /\ NewElement(call.state.elements, id).bounds
                  # DictGet(pre.elements, id).bounds
           /\ InOneRegion(ret, NewElement(call.state.elements, id), "modified",
                          {DictGet(pre.elements, id).bounds})

\* The last call was update_windows; call.state.windows is its argument.
WindowsUpdated == call.name = "update_windows"

\* The windows of ws that are flagged active, in order.
ActiveIn(ws) == SelectSeq(ws, LAMBDA w : w.is_active)

\* C23: after update_windows(ws) the active-window title is the title of the
\* first window of ws flagged active, and none when ws flags no window,
\* whatever it was before the call.
C23_ActiveWindowRecomputed ==
    WindowsUpdated =>
        active_window =
            IF ActiveIn(call.state.windows) # <<>>
            THEN Head(ActiveIn(call.state.windows)).title
            ELSE None

\* The last query was get_window_by_title.
WindowLookedUp == lookup.name = "get_window_by_title"

\* The cached windows whose title contains t, case-insensitively, in order.
TitleContains(t) ==
    SelectSeq(windows, LAMBDA w : IsSubstring(Lower(t), Lower(w.title)))

\* The similarity of the asked title to the title of window w.
TitleScore(t, w) == FuzzRatio(Lower(t), Lower(w.title))

\* The cached windows that score at least 60 against t and no less than any
\* other cached window.
BestScoring(t) ==
    {w \in Range(windows) :
        /\ ScoreAtLeast(TitleScore(t, w), 60)
        /\ \A v \in Range(windows) :
               ~ScoreGreater(TitleScore(t, v), TitleScore(t, w))}

\* C24: get_window_by_title(t) returns the first cached window whose title
\* contains t case-insensitively, whatever the fuzzy scores; when no title
\* contains t it returns, with fuzzy matching on, a window with the best
\* similarity score of at least 60, and otherwise none.
C24_SubstringBeforeFuzzy ==
    WindowLookedUp =>
        IF TitleContains(lookup.title) # <<>>
        THEN lookup.found = <<Head(TitleContains(lookup.title))>>
        ELSE IF lookup.fuzzy /\ BestScoring(lookup.title) # {}
             THEN /\ Len(lookup.found) = 1
                  /\ lookup.found[1] \in BestScoring(lookup.title)
             ELSE lookup.found = <<>>

\* A window was returned because its title contains the asked one although
\* another cached window scores higher.
C24_Witness ==
    /\ WindowLookedUp
    /\ TitleContains(lookup.title) # <<>>
    /\ lookup.found # <<>>
    /\ \E v \in Range(windows) :
           ScoreGreater(TitleScore(lookup.title, v),
                        TitleScore(lookup.title, lookup.found[1]))

\* The methods of BoundingBox were called on the pair call.a, call.b.
BoxesCombined == call.name = "BoundingBox"

\* No side of the box is negative.
WellFormed(box) == box.width >= 0 /\ box.height >= 0

\* Candidate enclosing boxes: every box with a corner among the coordinates
\* in use and sides long enough to reach from the least to the largest edge.
EnclosingBoxes ==
    {BB(x, y, w, h) : x \in 0..MaxCoord, y \in 0..MaxCoord,
                      w \in 0..2 * MaxCoord, h \in 0..2 * MaxCoord}

\* C30: for boxes a and b with non-negative sides, a.union(b) encloses both
\* and is enclosed by every box that encloses both (so it is the same either
\* way round, and a.union(a) = a); a.intersection(b) is none exactly when
\* a.intersects(b) is false and is otherwise enclosed by a and by b; and no
\* box returned has a negative side.
C30_UnionAndIntersection ==
    BoxesCombined =>
        /\ Encloses(ret.union, call.a) /\ Encloses(ret.union, call.b)
        /\ \A r \in EnclosingBoxes :
               Encloses(r, call.a) /\ Encloses(r, call.b)
                   => Encloses(r, ret.union)
        /\ ret.union = ret.union_swapped
        /\ call.a = call.b => ret.union = call.a
        /\ (ret.intersection = <<>>) <=> ~ret.intersects
        /\ ret.intersection # <<>> =>
               /\ Encloses(call.a, ret.intersection[1])
               /\ Encloses(call.b, ret.intersection[1])
               /\ WellFormed(ret.intersection[1])
        /\ WellFormed(ret.union)

\* Two boxes that only touch along an edge were combined: they intersect,
\* and their intersection has a side of length 0.
C30_Witness ==
    /\ BoxesCombined
    /\ X2(call.a) = call.b.x
    /\ call.a.width > 0 /\ call.b.width > 0
    /\ ret.intersects
    /\ ret.intersection # <<>>
    /\ ret.intersection[1].width = 0
    /\ ret.union # call.a /\ ret.union # call.b

\* The last call was _detect_changes.
Detected == call.name = "_detect_changes"

\* Region r, grown by the merge distance on all sides, intersects region s.
Near(r, s) == Intersects(Expanded(r.bounds, MergeDistance), s.bounds)

\* C26: after the detector's merge no two output regions remain of which
\* one, grown by the merge distance, intersects the other.
C26_NoMergeLeft ==
    Detected =>
        \A i, j \in 1..Len(ret.merged) :
            i # j => ~Near(ret.merged[i], ret.merged[j])

\* The ways to find the kept regions in the merged list: the position of
\* each.
KeptPositions ==
    {f \in [1..Len(ret.regions) -> 1..Len(ret.merged)] :
        /\ \A i, j \in 1..Len(ret.regions) : i # j => f[i] # f[j]
        /\ \A i \in 1..Len(ret.regions) : ret.regions[i] = ret.merged[f[i]]}

\* Under the positions f, every dropped region is smaller than every kept
\* one, or as large and found later.
LargestKept(f) ==
    \A p \in 1..Len(ret.merged) :
        (\A i \in 1..Len(ret.regions) : f[i] # p) =>
            \A i \in 1..Len(ret.regions) :
                \/ Area(ret.merged[p].bounds) < Area(ret.regions[i].bounds)
                \/ /\ Area(ret.merged[p].bounds) = Area(ret.regions[i].bounds)
                   /\ f[i] < p

\* C27: the detector returns at most max_regions regions; when the merged
\* list is longer, those kept are the max_regions largest by area, and of
\* regions of equal area one found earlier is kept before one found later.
C27_LargestRegionsKept ==
    Detected =>
        /\ Len(ret.regions) <= capture_config.max_regions
        /\ IF Len(ret.merged) > capture_config.max_regions
           THEN /\ Len(ret.regions) = capture_config.max_regions
                /\ \E f \in KeptPositions : LargestKept(f)
           ELSE ret.regions = ret.merged

\* Two merged regions of equal area competed for the last place.
C27_Witness ==
    /\ Detected
    /\ Len(ret.merged) > capture_config.max_regions
    /\ \E p, q \in 1..Len(ret.merged) :
           /\ p < q
           /\ Area(ret.merged[p].bounds) = Area(ret.merged[q].bounds)
           /\ ret.merged[p] \in Range(ret.regions)
           /\ ret.merged[q] \notin Range(ret.regions)

\* The step is a call of capture_incremental.
CaptureStep == call'.name = "capture_incremental" /\ clock' # clock

\* The step is a call of reset or stop.
DropStep == call'.name \in {"reset", "stop"} /\ call' # call

\* What capture_incremental owes its caller when it finds the frame
\* retained, and what is retained after each method.
CaptureContract ==
    /\ CaptureStep =>
           LET gray == Gray(ret'.frame.image)
           IN  /\ IF \/ previous_frame_gray = <<>>
                     \/ previous_frame_gray[1].shape # gray.shape
                  THEN ret'.is_full_capture /\ ret'.dirty_regions = <<>>
                  ELSE /\ ~ret'.is_full_capture
                       /\ ret'.dirty_regions =
                            DetectChanges(
                                ContoursOf(gray, previous_frame_gray[1]),
                                capture_config).regions
               /\ ret'.frame.timestamp = clock'
               /\ previous_frame_gray' = <<gray>>
    /\ DropStep => previous_frame_gray' = <<>>
    /\ ~CaptureStep /\ ~DropStep =>
           previous_frame_gray' = previous_frame_gray
    /\ clock' = 0 => previous_frame_gray' = <<>>

\* C25: capture_incremental reports a full capture with no dirty regions
\* exactly when no previous frame is retained (first call, or first call
\* after reset or stop) or the new frame's dimensions differ from the
\* retained frame's; every other call reports is_full_capture = false with
\* the regions computed against the retained frame.
C25_FullCaptureWithoutRetainedFrame == [][CaptureContract]_vars

\* The third capture in a row was compared with the frame the second one
\* retained and found regions.
C25_Witness ==
    /\ call.name = "capture_incremental"
    /\ ~ret.is_full_capture
    /\ ret.dirty_regions # <<>>
    /\ ret.previous_frame_time = clock - 1
    /\ clock = MaxCaptures

\* The last update ended in an exception in place of a diff.
CallRaised == "raised" \in DOMAIN ret

\* C28: with max_elements >= 0 and max_history >= 0, update_full,
\* update_incremental, the four element queries, update_windows,
\* get_window_by_title and clear complete without raising, in every
\* reachable state and for every argument; what is absent is reported as
\* none or an empty list.
C28_NoOperationRaises ==
    /\ ~CallRaised
    /\ (lookup.name # "none" /\ elements = <<>> /\ windows = <<>>) =>
           lookup.found = <<>>

\* The elements the last update was asked to insert.
HandedOver ==
    IF call.name = "update_full" THEN Range(call.state.elements)
    ELSE IF call.name = "update_incremental"
         THEN Range(call.added) \cup Range(call.modified)
         ELSE {}

\* elem has a negative side, or the identifier of a cached element of
\* another kind.
Malformed(elem, cached) ==
    \/ elem.bounds.width < 0
    \/ elem.bounds.height < 0
    \/ \E i \in 1..Len(cached) :
           cached[i].id = elem.id /\ cached[i].type # elem.type

\* The cache is as the last call found it.
CacheUnchanged ==
    /\ elements = pre.elements
    /\ elements_by_label = pre.by_label
    /\ elements_by_type = pre.by_type
    /\ elements_by_window = pre.by_window
    /\ history = pre.history

\* C29: a rectangle of negative width or height, or an element whose
\* identifier is held by a cached element of another kind, is rejected with
\* an assertion failure and the cache is left unchanged (stated for the
\* configurations in which an insertion finds room).
C29_MalformedInputRejected ==
    (/\ config.max_elements > 0
     /\ \E elem \in HandedOver : Malformed(elem, pre.elements)) =>
        /\ CallRaised
        /\ ret.raised = "AssertionError"
        /\ CacheUnchanged

\* ---------------------------------------------------------------- C31

\* The cache holds the Submit button and nothing else.
OnlySubmit == elements = <<SubmitButton>>

\* The last call was the fuzzy label lookup of label at the default
\* threshold.
FuzzyLookupOf(label) ==
    /\ lookup.name = "get_element_by_label"
    /\ lookup.label = label
    /\ lookup.fuzzy
    /\ lookup.threshold = DefaultThreshold

\* C31: with only a button labelled Submit cached and the default threshold
\* 80, the fuzzy lookup of Sbumit returns the button and counts a hit, that
\* of Sbuzzzmit returns nothing and counts a miss; the scores are
\* 100 * 2 * LCS / (len + len) of the lower-cased strings, 1000 / 12 and
\* 1000 / 15.
C31_TypoLookup ==
    /\ FuzzRatio(Lower("Sbumit"), Lower("Submit")) = Score(200 * 5, 6 + 6)
    /\ FuzzRatio(Lower("Sbuzzzmit"), Lower("Submit")) = Score(200 * 5, 9 + 6)
    /\ OnlySubmit /\ FuzzyLookupOf("Sbumit") =>
          /\ lookup.found = <<SubmitButton>>
          /\ cache_hits = 1 /\ cache_misses = 0
    /\ OnlySubmit /\ FuzzyLookupOf("Sbuzzzmit") =>
          /\ lookup.found = <<>>
          /\ cache_hits = 0 /\ cache_misses = 1

\* The typo Sbumit was looked up in a cache holding only the Submit button
\* and the button came back.
C31_Witness ==
    /\ OnlySubmit
    /\ FuzzyLookupOf("Sbumit")
    /\ lookup.found = <<SubmitButton>>

\* ---------------------------------------------------------------- C32

\* The ids cached once the events have been applied to a map holding ids.
RECURSIVE IdsAfter(_, _)
IdsAfter(ids, events) ==
    IF events = <<>> THEN ids
    ELSE IdsAfter(IF Head(events).op = "insert" THEN ids \cup {Head(events).id}
                  ELSE IF Head(events).op = "delete" THEN ids \ {Head(events).id}
                  ELSE ids,
                  Tail(events))

\* The ids cached when the k-th event of the last call took place.
CachedBefore(k) == IdsAfter(IdSet(pre.elements), SubSeq(log, 1, k - 1))

\* C32: an insertion evicts only when it would otherwise take the cache over
\* max_elements: when the id being inserted is already cached, the capacity
\* branch removes no other element.
C32_EvictsOnlyWhenExceeding ==
    \A k \in 1..Len(log) :
        log[k].op = "evict" =>
            \/ log[k + 2].id \notin CachedBefore(k)
            \/ log[k + 2].id = log[k].id

\* ---------------------------------------------------------------- C33

\* The ids listed as kind ("added", "removed" or "modified") in the regions
\* of a diff.
IdsListed(diff, kind) ==
    UNION {IdSet(ListOf(diff.changed_regions[i], kind)) :
              i \in 1..Len(diff.changed_regions)}

\* The last call was update_full or update_incremental and returned a diff.
UpdateReturned ==
    /\ call.name \in {"update_full", "update_incremental"}
    /\ "changed_regions" \in DOMAIN ret

\* C33: after an update the cached ids are those cached before it, less the
\* ids the diff lists as removed, plus the ids it lists as added; every id
\* that left the cache is listed as removed, and every id listed as added is
\* cached.  Calls in which an insertion of a cached id evicted another
\* element (C32) are left aside.
C33_DiffAccountsForCache ==
    UpdateReturned /\ C32_EvictsOnlyWhenExceeding =>
        /\ IdSet(elements) =
               (IdSet(pre.elements) \ IdsListed(ret, "removed"))
                   \cup IdsListed(ret, "added")
        /\ IdSet(pre.elements) \ IdSet(elements) \subseteq IdsListed(ret, "removed")
        /\ IdsListed(ret, "added") \subseteq IdSet(elements)

\* ---------------------------------------------------------------- C34

\* The number of elements listed as kind in the first n regions of a diff.
RECURSIVE CountListed(_, _, _)
CountListed(diff, kind, n) ==
    IF n = 0 THEN 0
    ELSE CountListed(diff, kind, n - 1) + Len(ListOf(diff.changed_regions[n], kind))

\* C34: in the diff update_incremental returns, total_added, total_removed
\* and total_modified are the numbers of elements its regions list as added,
\* removed and modified.
C34_TotalsCountListedElements ==
    call.name = "update_incremental" /\ "changed_regions" \in DOMAIN ret =>
        LET n == Len(ret.changed_regions)
        IN  /\ ret.total_added = CountListed(ret, "added", n)
            /\ ret.total_removed = CountListed(ret, "removed", n)
            /\ ret.total_modified = CountListed(ret, "modified", n)

\* ---------------------------------------------------------------- C35

\* The complete set update_full(state) is to leave: the elements of the
\* snapshot, one per id, and its windows, one per handle.
PostContents(state) ==
    [elements |-> {NewElement(state.elements, id) : id \in IdSet(state.elements)},
     windows |-> {w \in Range(state.windows) :
                     \E i \in 1..Len(state.windows) :
                         /\ state.windows[i] = w
                         /\ \A j \in (i + 1)..Len(state.windows) :
                                state.windows[j].handle # w.handle}]

\* A reader got the current state; what it saw, and the complete sets before
\* and after the last update_full.
ReaderSaw == Contents(lookup.seen.elements, lookup.seen.windows)

ReaderBefore == lookup.before

ReaderAfter ==
    IF lookup.updated THEN PostContents(lookup.state) ELSE lookup.before

\* C35: a reader that does not fall between the steps of an update_full
\* (every reader, when updates are atomic steps) observes the complete
\* contents from before the last update or the complete contents after it.
C35_SerializedReadersSeeWholeStates ==
    lookup.name = "current_state" /\ lookup.stage = "idle" =>
        ReaderSaw \in {ReaderBefore, ReaderAfter}

\* A reader ran between two insertions of an update_full that replaces a
\* non-empty cache, and saw some elements, but neither the complete set from
\* before the update nor the complete set after it.
C35_Witness ==
    /\ lookup.name = "current_state"
    /\ lookup.stage = "cleared"
    /\ ReaderBefore.elements # {}
    /\ ReaderSaw.elements # {}
    /\ ReaderSaw \notin {ReaderBefore, ReaderAfter}

\* ---------------------------------------------------------------- C36

\* The last call was update_full(S) and the pass about to be fed is S again.
SameSnapshotNext ==
    /\ call.name = "update_full"
    /\ pending # <<>>
    /\ call.state.elements = CreateAll(Head(pending))

\* The diff has no ChangedRegion (has_changes is false) and counts nothing.
EmptyDiff(diff) ==
    /\ diff.changed_regions = <<>>
    /\ diff.total_added = 0
    /\ diff.total_removed = 0
    /\ diff.total_modified = 0

\* C36: update_full(S) right after update_full(S) returns a diff with no
\* ChangedRegion and zero added, removed and modified elements; stated for
\* the snapshots whose distinct ids fit in max_elements.
C36_SecondFullUpdateIsEmpty ==
    [][SameSnapshotNext
         /\ Cardinality(IdSet(call.state.elements)) <= config.max_elements
         /\ pending' # pending
       => EmptyDiff(ret')]_vars

\* ---------------------------------------------------------------- C37

\* The bounds and change types of a list of regions, in order.
Shapes(regions) ==
    [i \in 1..Len(regions) |->
        <<regions[i].bounds, regions[i].change_type>>]

\* The regions _compute_diff gives for the last update_full when the three
\* id sets are enumerated as ordA, ordR and ordC.
RegionsUnder(ordA, ordR, ordC) ==
    ComputeDiff(pre.elements, call.state.elements, call.state.timestamp,
                ordA, ordR, ordC).changed_regions

\* C37: the ChangedRegions update_full returns depend on the cached elements
\* and the snapshot only: whatever the order in which the added, removed and
\* common ids are enumerated, the regions have the bounds and change types
\* of the ones returned.
C37_RegionsIndependentOfSetOrder ==
    call.name = "update_full" /\ "changed_regions" \in DOMAIN ret =>
        \A ordA \in Orders(AddedIds(pre.elements, call.state.elements)),
           ordR \in Orders(RemovedIds(pre.elements, call.state.elements)),
           ordC \in Orders(CommonIds(pre.elements, call.state.elements)) :
            Shapes(RegionsUnder(ordA, ordR, ordC)) = Shapes(ret.changed_regions)

\* ---------------------------------------------------------------- C38

\* The step is a call of reset.
ResetStep == call'.name = "reset" /\ call' # call

\* What each step leaves retained: a capture its own frame, whatever its
\* outcome; a reset nothing; and what a capture compares with.
Retention ==
    /\ CaptureStep =>
           /\ previous_frame' = <<ret'.frame.image>>
           /\ previous_frame_gray' = <<Gray(ret'.frame.image)>>
           /\ previous_time' = ret'.frame.timestamp
           /\ ~ret'.is_full_capture =>
                  /\ previous_frame # <<>>
                  /\ previous_frame_gray = <<Gray(previous_frame[1])>>
                  /\ ret'.previous_frame_time = previous_time
                  /\ ret'.previous_frame_time = ret'.frame.timestamp - 1
    /\ ResetStep =>
           /\ previous_frame' = <<>>
           /\ previous_frame_gray' = <<>>
           /\ previous_time' = 0
    /\ CaptureStep /\ call.name = "reset" => ret'.is_full_capture

\* C38: after every capture_incremental, full captures included, the
\* retained frame is the frame that call captured, so the next call compares
\* with the capture just before it; reset drops the retained frame and the
\* call after it is a full capture.
C38_RetainsTheLatestFrame == [][Retention]_vars

\* A capture after the first came out full and its frame is the one
\* retained.
C38_Witness ==
    /\ call.name = "capture_incremental"
    /\ clock >= 2
    /\ ret.is_full_capture
    /\ previous_frame = <<ret.frame.image>>
    /\ previous_time = clock

\* ---------------------------------------------------------------- C39

\* The last capture_and_analyze was not a full capture and found dirty
\* regions, and the elements it handed to update_full are fewer than
\* max_elements.
IncrementalCycle ==
    /\ engine.cycle # <<>>
    /\ ~engine.cycle[1].capture_result.is_full_capture
    /\ engine.cycle[1].capture_result.dirty_regions # <<>>
    /\ Len(engine.cycle[1].elements) < config.max_elements

\* elem, cached before the cycle, meets no dirty region of it.
OutsideDirty(elem) ==
    ~InChangedRegion(elem, engine.cycle[1].capture_result.dirty_regions)

\* C39: after a cycle that was not a full capture and had dirty regions,
\* every element that was cached and meets no dirty region is cached with
\* the value it had, and the diff lists it neither as added nor as removed
\* nor as modified, as long as the elements number fewer than max_elements.
C39_UntouchedElementsKept ==
    IncrementalCycle =>
        \A i \in 1..Len(pre.elements) :
            OutsideDirty(pre.elements[i]) =>
                /\ DictHas(elements, pre.elements[i].id)
                /\ DictGet(elements, pre.elements[i].id) = pre.elements[i]
                /\ pre.elements[i].id \notin
                       IdsListed(ret, "added") \cup IdsListed(ret, "removed")
                           \cup IdsListed(ret, "modified")

\* A cycle found the first spot changed: the button in it came back with
\* another label and is listed as modified, while the button below the
\* second spot, cached before, met no dirty region.
C39_Witness ==
    /\ IncrementalCycle
    /\ IdsListed(ret, "modified") # {}
    /\ \E i \in 1..Len(pre.elements) :
           /\ OutsideDirty(pre.elements[i])
           /\ pre.elements[i].bounds = BB(15, 75, 10, 10)
====
